---------------------------- MODULE Spec2Model ----------------------------
(***************************************************************************)
(* Desktop-capture layer of screenshot_gnome: session detection            *)
(* (capture/desktop.rs), backend selection, window listing and window      *)
(* capture per backend (capture/window_backends.rs, capture/window.rs) and *)
(* screen capture (capture/screen.rs).                                     *)
(*                                                                         *)
(* Rust Strings are sequences of one-character strings, so that            *)
(* to_lowercase, trim, split and contains are computed, not assumed.       *)
(* Option/Result values are tuples: <<>> is None/Err, <<v>> is Some/Ok.    *)
(***************************************************************************)
EXTENDS Integers, Sequences, FiniteSets, TLC

VARIABLES env, last, before, tmp, flights, state, ui, event

vars == <<env, last, before, tmp, flights, state, ui, event>>

-----------------------------------------------------------------------------
(* Option / Result of std::env::var: Err (NotPresent) or Ok(String).       *)

None == <<>>

Some(v) == <<v>>

is_ok(r) == Len(r) = 1

unwrap(r) == r[1]

-----------------------------------------------------------------------------
(* String operations used by desktop.rs.                                   *)

UpperCase == <<"A","B","C","D","E","F","G","H","I","J","K","L","M",
               "N","O","P","Q","R","S","T","U","V","W","X","Y","Z">>

LowerCase == <<"a","b","c","d","e","f","g","h","i","j","k","l","m",
               "n","o","p","q","r","s","t","u","v","w","x","y","z">>

char_to_lowercase(c) ==
    IF \E i \in 1..Len(UpperCase) : UpperCase[i] = c
    THEN LowerCase[CHOOSE i \in 1..Len(UpperCase) : UpperCase[i] = c]
    ELSE c

to_lowercase(s) == [i \in 1..Len(s) |-> char_to_lowercase(s[i])]

is_whitespace(c) == c \in {" ", "\t", "\n"}

RECURSIVE trim_start(_)
trim_start(s) ==
    IF s # <<>> /\ is_whitespace(Head(s)) THEN trim_start(Tail(s)) ELSE s

RECURSIVE trim_end(_)
trim_end(s) ==
    IF s # <<>> /\ is_whitespace(s[Len(s)])
    THEN trim_end(SubSeq(s, 1, Len(s) - 1))
    ELSE s

trim(s) == trim_end(trim_start(s))

(* str::split(sep): the pieces between separators, the empty ones kept.    *)
RECURSIVE split(_, _)
split(s, sep) ==
    IF \E i \in 1..Len(s) : s[i] = sep
    THEN LET i == CHOOSE k \in 1..Len(s) :
                      s[k] = sep /\ \A j \in 1..(k - 1) : s[j] # sep
         IN  <<SubSeq(s, 1, i - 1)>> \o split(SubSeq(s, i + 1, Len(s)), sep)
    ELSE <<s>>

starts_with(s, p) == Len(p) <= Len(s) /\ SubSeq(s, 1, Len(p)) = p

contains(s, p) ==
    \E i \in 0..(Len(s) - Len(p)) : SubSeq(s, i + 1, i + Len(p)) = p

-----------------------------------------------------------------------------
(* String literals of desktop.rs.                                          *)

s_wayland == <<"w","a","y","l","a","n","d">>
s_x11 == <<"x","1","1">>
s_gnome == <<"g","n","o","m","e">>
s_unity == <<"u","n","i","t","y">>
s_ubuntu == <<"u","b","u","n","t","u">>
s_pop == <<"p","o","p">>
s_kde == <<"k","d","e">>
s_plasma == <<"p","l","a","s","m","a">>
s_kde_plasma == <<"k","d","e","-","p","l","a","s","m","a">>
s_hyprland == <<"h","y","p","r","l","a","n","d">>
s_sway == <<"s","w","a","y">>
s_cinnamon == <<"c","i","n","n","a","m","o","n">>
s_x_cinnamon == <<"x","-","c","i","n","n","a","m","o","n">>
s_xfce == <<"x","f","c","e">>
s_xfce4 == <<"x","f","c","e","4">>
s_mate == <<"m","a","t","e">>

-----------------------------------------------------------------------------
(* capture/desktop.rs: the types.                                          *)

DisplayServer == {"Wayland", "X11", "Unknown"}

NamedEnvironments ==
    {"Gnome", "Kde", "Hyprland", "Sway", "Cinnamon", "Xfce", "Mate"}

(* DesktopEnvironment: a named variant, or Other(Option<String>).          *)
DE(tag) == [tag |-> tag, name |-> None]

Other(name) == [tag |-> "Other", name |-> name]

WindowListBackend ==
    {"Hyprland", "Sway", "GnomeWayland", "KdeWayland", "X11", "Xcap"}

DesktopSession(ds, de) == [display_server |-> ds, desktop_environment |-> de]

-----------------------------------------------------------------------------
(* DesktopSession::window_list_backend.                                    *)

window_list_backend_no_x11(session) ==
    LET de == session.desktop_environment.tag
        ds == session.display_server
    IN  CASE de = "Hyprland" /\ ds = "Wayland" -> "Hyprland"
          [] de = "Sway" /\ ds = "Wayland" -> "Sway"
          [] de = "Gnome" /\ ds = "Wayland" -> "GnomeWayland"
          [] de = "Kde" /\ ds = "Wayland" -> "KdeWayland"
          [] OTHER -> "Xcap"

window_list_backend(session) ==
    LET de == session.desktop_environment.tag
        ds == session.display_server
    IN  CASE de = "Hyprland" /\ ds = "Wayland" -> "Hyprland"
          [] de = "Sway" /\ ds = "Wayland" -> "Sway"
          [] de = "Gnome" /\ ds = "Wayland" -> "GnomeWayland"
          [] de = "Kde" /\ ds = "Wayland" -> "KdeWayland"
          [] ds = "X11" -> "X11"
          [] OTHER -> "Xcap"

-----------------------------------------------------------------------------
(* detect_display_server.  e maps each variable name to the result of      *)
(* env::var: None (Err) or Some(string).                                   *)

detect_display_server_display_first(e) ==
    IF is_ok(e["DISPLAY"]) THEN "X11"
    ELSE IF is_ok(e["WAYLAND_DISPLAY"]) THEN "Wayland"
    ELSE "Unknown"

detect_display_server_case_sensitive(e) ==
    LET session_type == e["XDG_SESSION_TYPE"]
    IN  IF is_ok(session_type) /\ unwrap(session_type) = s_wayland THEN "Wayland"
        ELSE IF is_ok(session_type) /\ unwrap(session_type) = s_x11 THEN "X11"
        ELSE IF is_ok(e["WAYLAND_DISPLAY"]) THEN "Wayland"
        ELSE IF is_ok(e["DISPLAY"]) THEN "X11"
        ELSE "Unknown"

detect_display_server_default_x11(e) ==
    LET session_type == e["XDG_SESSION_TYPE"]
        lower == to_lowercase(unwrap(session_type))
    IN  IF is_ok(session_type) /\ lower = s_wayland THEN "Wayland"
        ELSE IF is_ok(session_type) /\ lower = s_x11 THEN "X11"
        ELSE IF is_ok(e["WAYLAND_DISPLAY"]) THEN "Wayland"
        ELSE "X11"

detect_display_server(e) ==
    LET session_type == e["XDG_SESSION_TYPE"]
        lower == to_lowercase(unwrap(session_type))
    IN  IF is_ok(session_type) /\ lower = s_wayland THEN "Wayland"
        ELSE IF is_ok(session_type) /\ lower = s_x11 THEN "X11"
        ELSE IF is_ok(e["WAYLAND_DISPLAY"]) THEN "Wayland"
        ELSE IF is_ok(e["DISPLAY"]) THEN "X11"
        ELSE "Unknown"

-----------------------------------------------------------------------------
(* detect_desktop_environment.                                             *)

ProbeOutcomes == {"spawn_err", "nonzero", "ok"}

(* is_hyprland_running: Command::new("hyprctl").arg("version").output()    *)
(* mapped to status.success(), false when the spawn fails.                 *)
is_hyprland_running(probe) == probe = "ok"

(* The match on one trimmed, lower-cased component; "continue" is the      *)
(* wildcard arm.                                                           *)
match_component(c) ==
    CASE c \in {s_gnome, s_unity, s_ubuntu, s_pop} -> "Gnome"
      [] c \in {s_kde, s_plasma, s_kde_plasma} -> "Kde"
      [] c = s_hyprland -> "Hyprland"
      [] c = s_sway -> "Sway"
      [] c \in {s_cinnamon, s_x_cinnamon} -> "Cinnamon"
      [] c \in {s_xfce, s_xfce4} -> "Xfce"
      [] c = s_mate -> "Mate"
      [] OTHER -> "continue"

(* The for loop over desktop_lower.split(':'): the first component whose   *)
(* match returns, or "continue" when the loop ends.                        *)
RECURSIVE match_components(_)
match_components(components) ==
    IF components = <<>> THEN "continue"
    ELSE LET m == match_component(trim(Head(components)))
         IN  IF m # "continue" THEN m ELSE match_components(Tail(components))

(* The DESKTOP_SESSION chain with its tests in the opposite order.         *)
match_desktop_session_reversed(session_lower) ==
    IF contains(session_lower, s_mate) THEN "Mate"
    ELSE IF contains(session_lower, s_xfce) THEN "Xfce"
    ELSE IF contains(session_lower, s_cinnamon) THEN "Cinnamon"
    ELSE IF contains(session_lower, s_plasma) \/ contains(session_lower, s_kde)
         THEN "Kde"
    ELSE IF contains(session_lower, s_gnome) THEN "Gnome"
    ELSE "continue"

(* The DESKTOP_SESSION if/else-if chain on the lower-cased value.          *)
match_desktop_session(session_lower) ==
    IF contains(session_lower, s_gnome) THEN "Gnome"
    ELSE IF contains(session_lower, s_plasma) \/ contains(session_lower, s_kde)
         THEN "Kde"
    ELSE IF contains(session_lower, s_cinnamon) THEN "Cinnamon"
    ELSE IF contains(session_lower, s_xfce) THEN "Xfce"
    ELSE IF contains(session_lower, s_mate) THEN "Mate"
    ELSE "continue"

Detected(de, reads, spawned) == [de |-> de, reads |-> reads, spawned |-> spawned]

(* The one subprocess of detection and how it ended.                       *)
hyprctl_version(probe) ==
    [tool |-> "hyprctl", args |-> <<"version">>, outcome |-> probe]

detect_legacy_probe_any_server(e, display_server, probe, reads) ==
    LET desktop_session == e["DESKTOP_SESSION"]
        m == IF is_ok(desktop_session)
             THEN match_desktop_session(to_lowercase(unwrap(desktop_session)))
             ELSE "continue"
        r1 == Append(reads, "DESKTOP_SESSION")
        r2 == Append(r1, "KDE_FULL_SESSION")
        r3 == Append(r2, "GNOME_DESKTOP_SESSION_ID")
    IN  IF m # "continue" THEN Detected(DE(m), r1, <<>>)
        ELSE IF is_ok(e["KDE_FULL_SESSION"]) THEN Detected(DE("Kde"), r2, <<>>)
        ELSE IF is_ok(e["GNOME_DESKTOP_SESSION_ID"])
             THEN Detected(DE("Gnome"), r3, <<>>)
        ELSE IF is_hyprland_running(probe)
             THEN Detected(DE("Hyprland"), r3, <<hyprctl_version(probe)>>)
        ELSE Detected(Other(None), r3, <<hyprctl_version(probe)>>)

(* The tail of detect_desktop_environment from the DESKTOP_SESSION         *)
(* fallback on; reads is the sequence of variables read so far.            *)
detect_legacy(e, display_server, probe, reads) ==
    LET desktop_session == e["DESKTOP_SESSION"]
        m == IF is_ok(desktop_session)
             THEN match_desktop_session(to_lowercase(unwrap(desktop_session)))
             ELSE "continue"
        r1 == Append(reads, "DESKTOP_SESSION")
        r2 == Append(r1, "KDE_FULL_SESSION")
        r3 == Append(r2, "GNOME_DESKTOP_SESSION_ID")
    IN  IF m # "continue" THEN Detected(DE(m), r1, <<>>)
        ELSE IF is_ok(e["KDE_FULL_SESSION"]) THEN Detected(DE("Kde"), r2, <<>>)
        ELSE IF is_ok(e["GNOME_DESKTOP_SESSION_ID"])
             THEN Detected(DE("Gnome"), r3, <<>>)
        ELSE IF display_server = "Wayland"
             THEN IF is_hyprland_running(probe)
                  THEN Detected(DE("Hyprland"), r3, <<hyprctl_version(probe)>>)
                  ELSE Detected(Other(None), r3, <<hyprctl_version(probe)>>)
        ELSE Detected(Other(None), r3, <<>>)

detect_desktop_environment_lowered(e, display_server, probe) ==
    LET r1 == <<"HYPRLAND_INSTANCE_SIGNATURE">>
        r2 == Append(r1, "SWAYSOCK")
        r3 == Append(r2, "XDG_CURRENT_DESKTOP")
        current_desktop == e["XDG_CURRENT_DESKTOP"]
        desktop_lower == to_lowercase(unwrap(current_desktop))
        m == IF is_ok(current_desktop)
             THEN match_components(split(desktop_lower, ":"))
             ELSE "continue"
    IN  IF is_ok(e["HYPRLAND_INSTANCE_SIGNATURE"])
        THEN Detected(DE("Hyprland"), r1, <<>>)
        ELSE IF is_ok(e["SWAYSOCK"]) THEN Detected(DE("Sway"), r2, <<>>)
        ELSE IF m # "continue" THEN Detected(DE(m), r3, <<>>)
        ELSE IF is_ok(current_desktop) /\ unwrap(current_desktop) # <<>>
             THEN Detected(Other(Some(desktop_lower)), r3, <<>>)
        ELSE detect_legacy(e, display_server, probe, r3)

detect_desktop_environment_desktop_first(e, display_server, probe) ==
    LET r3 == <<"XDG_CURRENT_DESKTOP">>
        current_desktop == e["XDG_CURRENT_DESKTOP"]
        desktop_lower == to_lowercase(unwrap(current_desktop))
        m == IF is_ok(current_desktop)
             THEN match_components(split(desktop_lower, ":"))
             ELSE "continue"
    IN  IF m # "continue" THEN Detected(DE(m), r3, <<>>)
        ELSE IF is_ok(e["HYPRLAND_INSTANCE_SIGNATURE"])
             THEN Detected(DE("Hyprland"), r3, <<>>)
        ELSE IF is_ok(e["SWAYSOCK"]) THEN Detected(DE("Sway"), r3, <<>>)
        ELSE IF is_ok(current_desktop) /\ unwrap(current_desktop) # <<>>
             THEN Detected(Other(Some(unwrap(current_desktop))), r3, <<>>)
        ELSE detect_legacy(e, display_server, probe, r3)

detect_desktop_environment(e, display_server, probe) ==
    LET r1 == <<"HYPRLAND_INSTANCE_SIGNATURE">>
        r2 == Append(r1, "SWAYSOCK")
        r3 == Append(r2, "XDG_CURRENT_DESKTOP")
        current_desktop == e["XDG_CURRENT_DESKTOP"]
        desktop_lower == to_lowercase(unwrap(current_desktop))
        m == IF is_ok(current_desktop)
             THEN match_components(split(desktop_lower, ":"))
             ELSE "continue"
    IN  IF is_ok(e["HYPRLAND_INSTANCE_SIGNATURE"])
        THEN Detected(DE("Hyprland"), r1, <<>>)
        ELSE IF is_ok(e["SWAYSOCK"]) THEN Detected(DE("Sway"), r2, <<>>)
        ELSE IF m # "continue" THEN Detected(DE(m), r3, <<>>)
        ELSE IF is_ok(current_desktop) /\ unwrap(current_desktop) # <<>>
             THEN Detected(Other(Some(unwrap(current_desktop))), r3, <<>>)
        ELSE detect_legacy(e, display_server, probe, r3)

(* DesktopSession::detect, with what the call read and spawned.            *)
detect_at_startup(e, probe) ==
    LET display_server == detect_display_server([v \in DOMAIN e |-> None])
        d == detect_desktop_environment([v \in DOMAIN e |-> None],
                                        display_server, probe)
    IN  [session |-> DesktopSession(display_server, d.de),
         reads |-> d.reads,
         spawned |-> d.spawned]

detect(e, probe) ==
    LET display_server == detect_display_server(e)
        d == detect_desktop_environment(e, display_server, probe)
    IN  [session |-> DesktopSession(display_server, d.de),
         reads |-> d.reads,
         spawned |-> d.spawned]

-----------------------------------------------------------------------------
(* Results and the record of what a call invoked.                          *)
(* A result is Ok (ok = TRUE, val the payload) or Err (err the variant of  *)
(* WindowCaptureError, or "String" in screen.rs; by the operation whose    *)
(* failure built it).                                                      *)

Ok(by, val) == [ok |-> TRUE, err |-> "", by |-> by, val |-> val]

Err(kind, by) == [ok |-> FALSE, err |-> kind, by |-> by, val |-> <<>>]

(* One invocation: a Command (tool, args) or an in-process xcap call, with *)
(* how it ended.                                                           *)
Call(tool, args, outcome) == [tool |-> tool, args |-> args, outcome |-> outcome]

Ran(result, calls) == [result |-> result, calls |-> calls]

(* Command::output() of a capture tool followed by load_pixbuf_from_file:  *)
(* the spawn fails, the exit status is non-zero, the status is zero and    *)
(* the file does not decode, the status is zero and the file decodes.      *)
CaptureOutcomes == {"spawn_err", "nonzero", "load_err", "ok"}

(* Command::output() of a listing tool: stdout matters when it succeeds.   *)
CommandOutcomes == {"spawn_err", "nonzero", "ok"}

(* u32 as i32 (two's complement): values above i32::MAX wrap by 2^32.      *)
as_i32(u) == IF u > 2147483647 THEN (u - 2147483647) - 2147483647 - 2 ELSE u

max(a, b) == IF a >= b THEN a ELSE b

min(a, b) == IF a <= b THEN a ELSE b

(* format!("{},{} {}x{}", x, y, width, height): the four numbers.          *)
geometry(w) == <<w.x, w.y, w.width, w.height>>

-----------------------------------------------------------------------------
(* The generic backend (xcap).  world is what xcap::Window::all() gives    *)
(* at the time of the call: None when it fails, else Some(live windows);   *)
(* a live window carries its fields and how capture_image() ends.          *)

matches_id(lw, w) == lw.id = w.id

matches_title(lw, w) == lw.title = w.title /\ lw.app_name = w.app_name

matches_geometry(lw, w) ==
    lw.x = w.x /\ lw.y = w.y /\ lw.width = w.width /\ lw.height = w.height

(* Iterator::find: the first element satisfying the predicate; hits is    *)
(* the set of positions whose element satisfies it.                        *)
find_first(ws, hits) ==
    IF hits = {} THEN None
    ELSE Some(ws[CHOOSE i \in hits : \A j \in hits : i <= j])

or_else(a, b) == IF is_ok(a) THEN a ELSE b

list_windows_xcap(world) ==
    IF ~is_ok(world)
    THEN Ran(Err("EnumerationFailed", "xcap"),
             <<Call("xcap", <<"Window::all">>, "err")>>)
    ELSE Ran(Ok("xcap", unwrap(world)),
             <<Call("xcap", <<"Window::all">>, "ok")>>)

(* The three finds of capture_window_xcap, in another order.               *)
find_window_title_first(w, windows) ==
    or_else(or_else(find_first(windows,
                               {i \in 1..Len(windows) : matches_title(windows[i], w)}),
                    find_first(windows,
                               {i \in 1..Len(windows) : matches_id(windows[i], w)})),
            find_first(windows,
                       {i \in 1..Len(windows) : matches_geometry(windows[i], w)}))

(* The window capture_window_xcap selects among the enumerated windows:    *)
(* find by id, or else by title and app name, or else by geometry.         *)
find_window(w, windows) ==
    or_else(or_else(find_first(windows,
                               {i \in 1..Len(windows) : matches_id(windows[i], w)}),
                    find_first(windows,
                               {i \in 1..Len(windows) : matches_title(windows[i], w)})),
            find_first(windows,
                       {i \in 1..Len(windows) : matches_geometry(windows[i], w)}))

capture_window_xcap(w, world) ==
    LET all == Call("xcap", <<"Window::all">>, IF is_ok(world) THEN "ok" ELSE "err")
        window == find_window(w, unwrap(world))
        grab == Call("xcap", <<"capture_image">>, unwrap(window).image)
    IN  IF ~is_ok(world) THEN Ran(Err("EnumerationFailed", "xcap"), <<all>>)
        ELSE IF ~is_ok(window) THEN Ran(Err("WindowNotFound", "xcap"), <<all>>)
        ELSE IF unwrap(window).is_minimized
             THEN Ran(Err("WindowMinimized", "xcap"), <<all>>)
        ELSE IF unwrap(window).image # "ok"
             THEN Ran(Err("CaptureFailed", "xcap"), <<all, grab>>)
        ELSE Ran(Ok("xcap", [window_info |-> w, crop |-> None]), <<all, grab>>)

-----------------------------------------------------------------------------
(* crop_pixbuf(pixbuf, x, y, width, height): the clamped sub-rectangle, or *)
(* None.  src is <<src_width, src_height>>.                                *)

crop_pixbuf(src, x0, y0, width0, height0) ==
    LET x == min(max(x0, 0), src[1] - 1)
        y == min(max(y0, 0), src[2] - 1)
        width == min(width0, src[1] - x)
        height == min(height0, src[2] - y)
    IN  IF width <= 0 \/ height <= 0 THEN None
        ELSE Some(<<x, y, width, height>>)

-----------------------------------------------------------------------------
(* Window capture per backend.  o maps each Command of the backend to its  *)
(* outcome in this call.                                                   *)

capture_window_hyprland(w, o) ==
    LET grim == Call("grim", <<"-g", geometry(w)>>, o["grim"])
    IN  IF o["grim"] \in {"spawn_err", "nonzero"}
        THEN Ran(Err("CaptureFailed", "grim"), <<grim>>)
        ELSE IF o["grim"] = "load_err"
             THEN Ran(Err("ConversionFailed", "grim"), <<grim>>)
        ELSE Ran(Ok("grim", [window_info |-> w, crop |-> None]), <<grim>>)

capture_window_sway(w, o) ==
    LET grim == Call("grim", <<"-g", geometry(w)>>, o["grim"])
    IN  IF o["grim"] \in {"spawn_err", "nonzero"}
        THEN Ran(Err("CaptureFailed", "grim"), <<grim>>)
        ELSE IF o["grim"] = "load_err"
             THEN Ran(Err("ConversionFailed", "grim"), <<grim>>)
        ELSE Ran(Ok("grim", [window_info |-> w, crop |-> None]), <<grim>>)

(* full is the size of the pixbuf gnome-screenshot's file decodes to.      *)
capture_window_gnome_wayland(w, o, full, world) ==
    LET portal == Call("gdbus", <<"ScreenshotWindow">>, o["gdbus"])
        grim == Call("grim", <<"-g", geometry(w)>>, o["grim"])
        gnome == Call("gnome-screenshot", <<"-f">>, o["gnome-screenshot"])
        cropped == crop_pixbuf(full, w.x, w.y, as_i32(w.width), as_i32(w.height))
        xcap == capture_window_xcap(w, world)
    IN  IF o["gdbus"] = "ok"
        THEN Ran(Ok("gdbus", [window_info |-> w, crop |-> None]), <<portal>>)
        ELSE IF o["grim"] = "ok"
             THEN Ran(Ok("grim", [window_info |-> w, crop |-> None]),
                      <<portal, grim>>)
        ELSE IF o["gnome-screenshot"] = "ok" /\ is_ok(cropped)
             THEN Ran(Ok("gnome-screenshot", [window_info |-> w, crop |-> cropped]),
                      <<portal, grim, gnome>>)
        ELSE Ran(xcap.result, <<portal, grim, gnome>> \o xcap.calls)

(* The result of the first Command, spectacle -r, is dropped unread: its   *)
(* outcome is only that the spawn failed or the process ended.             *)
capture_window_kde_wayland(w, o, world) ==
    LET spectacle_result == Call("spectacle", <<"-r">>, o["spectacle -r"])
        spectacle_window == Call("spectacle", <<"-a">>, o["spectacle -a"])
        grim == Call("grim", <<"-g", geometry(w)>>, o["grim"])
        xcap == capture_window_xcap(w, world)
    IN  IF o["spectacle -a"] = "ok"
        THEN Ran(Ok("spectacle", [window_info |-> w, crop |-> None]),
                 <<spectacle_result, spectacle_window>>)
        ELSE IF o["grim"] = "ok"
             THEN Ran(Ok("grim", [window_info |-> w, crop |-> None]),
                      <<spectacle_result, spectacle_window, grim>>)
        ELSE Ran(xcap.result,
                 <<spectacle_result, spectacle_window, grim>> \o xcap.calls)

(* The Commands a backend's window capture can run.                        *)
CaptureCommands(backend) ==
    CASE backend \in {"Hyprland", "Sway"} -> {"grim"}
      [] backend = "GnomeWayland" -> {"gdbus", "grim", "gnome-screenshot"}
      [] backend = "KdeWayland" -> {"spectacle -r", "spectacle -a", "grim"}
      [] OTHER -> {}

capture_window_with_backend(backend, w, o, full, world) ==
    CASE backend = "Hyprland" -> capture_window_hyprland(w, o)
      [] backend = "Sway" -> capture_window_sway(w, o)
      [] backend = "GnomeWayland" -> capture_window_gnome_wayland(w, o, full, world)
      [] backend = "KdeWayland" -> capture_window_kde_wayland(w, o, world)
      [] OTHER -> capture_window_xcap(w, world)

capture_window_for_session(session, w, o, full, world) ==
    capture_window_with_backend(window_list_backend(session), w, o, full, world)

-----------------------------------------------------------------------------
(* Window listing per backend.  A listing's payload is the                *)
(* Vec<WindowInfo>.                                                        *)

ends_with(s, p) ==
    Len(p) <= Len(s) /\ SubSeq(s, Len(s) - Len(p) + 1, Len(s)) = p

(* str::find from a byte offset: the 0-based offset of the first           *)
(* occurrence of p in s at or after start, or -1.                          *)
find_from(s, p, start) ==
    LET hits == {i \in start..(Len(s) - Len(p)) : SubSeq(s, i + 1, i + Len(p)) = p}
    IN  IF hits = {} THEN -1 ELSE CHOOSE i \in hits : \A j \in hits : i <= j

(* str::lines: the pieces between line feeds, without a final empty one.   *)
lines(s) ==
    LET pieces == split(s, "\n")
    IN  IF pieces[Len(pieces)] = <<>>
        THEN SubSeq(pieces, 1, Len(pieces) - 1)
        ELSE pieces

Digits == <<"0", "1", "2", "3", "4", "5", "6", "7", "8", "9">>

is_ascii_digit(c) == \E i \in 1..Len(Digits) : Digits[i] = c

digit_value(c) == (CHOOSE i \in 1..Len(Digits) : Digits[i] = c) - 1

RECURSIVE strip_zeros(_)
strip_zeros(s) ==
    IF Len(s) > 1 /\ Head(s) = "0" THEN strip_zeros(Tail(s)) ELSE s

(* Order of two digit strings of the same length.                          *)
RECURSIVE digits_le(_, _)
digits_le(a, b) ==
    IF a = <<>> THEN TRUE
    ELSE IF digit_value(Head(a)) # digit_value(Head(b))
         THEN digit_value(Head(a)) < digit_value(Head(b))
         ELSE digits_le(Tail(a), Tail(b))

u32_MAX == <<"4", "2", "9", "4", "9", "6", "7", "2", "9", "5">>

(* str::parse::<u32>: an optional plus sign, then one or more digits, the  *)
(* value at most u32::MAX.  The parsed number is kept as its decimal       *)
(* digits without leading zeros.                                           *)
parse_u32(s) ==
    LET body == IF s # <<>> /\ Head(s) = "+" THEN Tail(s) ELSE s
        digits == strip_zeros(body)
    IN  IF body # <<>> /\ (\A i \in 1..Len(body) : is_ascii_digit(body[i]))
           /\ (Len(digits) < Len(u32_MAX)
                \/ (Len(digits) = Len(u32_MAX) /\ digits_le(digits, u32_MAX)))
        THEN Some(digits)
        ELSE None

-----------------------------------------------------------------------------
(* Strings as the parsers see them: find, len and the index expressions    *)
(* &s[a..b] count bytes, chars().enumerate() and Vec<char> count chars.    *)
(* Offsets below are char offsets (0-based) unless they pass through       *)
(* str_index, which takes byte offsets as the slice does.                  *)

(* char::len_utf8 on the sampled alphabet.                                 *)
len_utf8(c) == IF c = "é" THEN 2 ELSE 1

(* A panic of the calling thread, where a value was expected.              *)
Panic == <<"panic", "panic">>

panicked(option) == Len(option) = 2

(* &s[from..to] with byte offsets: the slice, or a panic when an offset is *)
(* not on a char boundary of s or the range is reversed.  The first k      *)
(* chars take k bytes and one more for each char of two bytes among them.  *)
str_index(s, from, to) ==
    LET wide == {i \in 1..Len(s) : len_utf8(s[i]) = 2}
        chars_to(b) ==
            {k \in 0..Len(s) : k + Cardinality({i \in wide : i <= k}) = b}
        slice(a, b) ==
            IF from <= to /\ a # {} /\ b # {}
            THEN Some(SubSeq(s, (CHOOSE k \in a : TRUE) + 1, CHOOSE k \in b : TRUE))
            ELSE Panic
    IN  slice(chars_to(from), chars_to(to))

(* The digits of a decimal string as a number below 2^31.                  *)
RECURSIVE decimal(_)
decimal(digits) ==
    IF digits = <<>> THEN 0
    ELSE decimal(SubSeq(digits, 1, Len(digits) - 1)) * 10
            + digit_value(digits[Len(digits)])

(* A u32 given by its decimal digits.  Numbers are 32 bits wide here, so a *)
(* u32 is held as the i32 with the same bits: 2^31.. 2^32-1 are negative,  *)
(* and `as i32` is the identity.                                           *)
u32_value(digits) ==
    LET value(hi, lo) ==
            IF hi < 214748364 \/ (hi = 214748364 /\ lo <= 7)
            THEN hi * 10 + lo
            ELSE (hi - 429496728) * 10 + (lo - 16)
    IN  value(decimal(SubSeq(digits, 1, Len(digits) - 1)),
              digit_value(digits[Len(digits)]))

(* Result::ok() of str::parse::<u32>().                                    *)
ok_u32(parsed) == IF is_ok(parsed) THEN Some(u32_value(unwrap(parsed))) ELSE None

i32_MAX == <<"2", "1", "4", "7", "4", "8", "3", "6", "4", "7">>

i32_MIN == <<"2", "1", "4", "7", "4", "8", "3", "6", "4", "8">>

(* str::parse::<i32>: an optional sign, then one or more digits, the value *)
(* within i32.                                                             *)
parse_i32(s) ==
    LET negative == s # <<>> /\ Head(s) = "-"
        body == IF s # <<>> /\ Head(s) \in {"+", "-"} THEN Tail(s) ELSE s
        limit == IF negative THEN i32_MIN ELSE i32_MAX
        value(digits) ==
            IF body # <<>> /\ (\A i \in 1..Len(body) : is_ascii_digit(body[i]))
               /\ (Len(digits) < Len(limit)
                    \/ (Len(digits) = Len(limit) /\ digits_le(digits, limit)))
            THEN Some(IF ~negative THEN decimal(digits)
                      ELSE IF digits = i32_MIN THEN (0 - 2147483647) - 1
                      ELSE 0 - decimal(digits))
            ELSE None
    IN  value(strip_zeros(body))

HexDigits ==
    <<"0", "1", "2", "3", "4", "5", "6", "7", "8", "9",
      "a", "b", "c", "d", "e", "f">>

is_hex_digit(c) ==
    \E i \in 1..Len(HexDigits) : HexDigits[i] = char_to_lowercase(c)

hex_value(c) ==
    (CHOOSE i \in 1..Len(HexDigits) : HexDigits[i] = char_to_lowercase(c)) - 1

(* The digits of a hexadecimal string of at most 7 digits as a number.     *)
RECURSIVE hexadecimal(_)
hexadecimal(digits) ==
    IF digits = <<>> THEN 0
    ELSE hexadecimal(SubSeq(digits, 1, Len(digits) - 1)) * 16
            + hex_value(digits[Len(digits)])

(* u32::from_str_radix(s, 16): an optional plus sign, then one or more hex *)
(* digits, the value at most u32::MAX (8 significant digits).              *)
from_str_radix_16(s) ==
    LET body == IF s # <<>> /\ Head(s) = "+" THEN Tail(s) ELSE s
        value(digits) ==
            IF body = <<>> \/ (\E i \in 1..Len(body) : ~is_hex_digit(body[i]))
               \/ Len(digits) > 8
            THEN None
            ELSE IF Len(digits) < 8 THEN Some(hexadecimal(digits))
            ELSE IF hex_value(Head(digits)) < 8
                 THEN Some(hex_value(Head(digits)) * 268435456
                              + hexadecimal(Tail(digits)))
            ELSE Some((hex_value(Head(digits)) - 16) * 268435456
                         + hexadecimal(Tail(digits)))
    IN  value(strip_zeros(body))

(* str::trim_start_matches(p): p removed from the front as often as it     *)
(* occurs there.                                                           *)
RECURSIVE trim_start_matches(_, _)
trim_start_matches(s, p) ==
    IF starts_with(s, p)
    THEN trim_start_matches(SubSeq(s, Len(p) + 1, Len(s)), p)
    ELSE s

unwrap_or(option, default) == IF is_ok(option) THEN unwrap(option) ELSE default

-----------------------------------------------------------------------------
(* The field extractors.  Each gives None, Some(value) or a panic.         *)

(* `json.find(&pattern)? + pattern.len()` and `json[start..].trim_start()` *)
(* for pattern = format!("\"{}\":", key): None, or Some(rest).             *)
after_key(json, key) ==
    LET rest(pattern, found) ==
            IF found < 0 THEN None
            ELSE Some(trim_start(SubSeq(json, found + Len(pattern) + 1, Len(json))))
    IN  rest(<<"\"">> \o key \o <<"\"", ":">>,
             find_from(json, <<"\"">> \o key \o <<"\"", ":">>, 0))

(* The loops over the chars of a text are folded by halves: the state      *)
(* after the turns lo..hi-1 is the state after the turns mid..hi-1 taken   *)
(* from the state after lo..mid-1, and a loop that has returned takes no   *)
(* further turn.                                                           *)

(* One turn of the while loop of extract_json_string at index end: end is  *)
(* the index of the closing quote once found.                              *)
closing_quote_step(chars, s, end) ==
    IF s.found THEN s
    ELSE IF s.escape_next THEN [s EXCEPT !.escape_next = FALSE]
    ELSE IF chars[end + 1] = "\\" THEN [s EXCEPT !.escape_next = TRUE]
    ELSE IF chars[end + 1] = "\"" THEN [s EXCEPT !.found = TRUE, !.end = end]
    ELSE s

RECURSIVE closing_quote_turns(_, _, _, _)
closing_quote_turns(chars, s, lo, hi) ==
    IF lo >= hi THEN s
    ELSE IF hi = lo + 1 THEN closing_quote_step(chars, s, lo)
    ELSE LET rest(first) ==
                 IF first.found THEN first
                 ELSE closing_quote_turns(chars, first, (lo + hi) \div 2, hi)
         IN  rest(closing_quote_turns(chars, s, lo, (lo + hi) \div 2))

(* The while loop from content_start = 1: the index of the closing quote,  *)
(* or -1 when the chars run out.                                           *)
closing_quote(chars) ==
    closing_quote_turns(chars, [found |-> FALSE, end |-> -1, escape_next |-> FALSE],
                        1, Len(chars)).end

extract_json_string(json, key) ==
    LET quoted(rest, end) ==
            IF ~starts_with(rest, <<"\"">>) THEN None
            ELSE IF end < 0 THEN None
            ELSE str_index(rest, 1, end)
        value(found) ==
            IF ~is_ok(found) THEN None
            ELSE quoted(unwrap(found), closing_quote(unwrap(found)))
    IN  value(after_key(json, key))

extract_json_hex_value(json, key) == extract_json_string(json, key)

(* rest[..end] for end = the first char that is neither a digit nor '-',   *)
(* or rest.len().                                                          *)
number_prefix(rest) ==
    LET stops == {i \in 1..Len(rest) : ~is_ascii_digit(rest[i]) /\ rest[i] # "-"}
        end == IF stops = {} THEN Len(rest)
               ELSE (CHOOSE i \in stops : \A j \in stops : i <= j) - 1
    IN  SubSeq(rest, 1, end)

extract_json_number(json, key) ==
    LET value(found) ==
            IF ~is_ok(found) THEN None
            ELSE ok_u32(parse_u32(number_prefix(unwrap(found))))
    IN  value(after_key(json, key))

extract_json_bool(json, key) ==
    LET value(found) ==
            IF ~is_ok(found) THEN None
            ELSE parse_i32(number_prefix(unwrap(found)))
    IN  value(after_key(json, key))

extract_json_bool_field(json, key) ==
    LET value(found) ==
            IF ~is_ok(found) THEN None
            ELSE IF starts_with(unwrap(found), <<"t", "r", "u", "e">>) THEN Some(TRUE)
            ELSE IF starts_with(unwrap(found), <<"f", "a", "l", "s", "e">>)
                 THEN Some(FALSE)
            ELSE None
    IN  value(after_key(json, key))

(* `&rest[1..end]` split at commas, for rest starting with '[' and end the *)
(* first ']': None, or Some(parts).                                        *)
array_parts(json, key) ==
    LET parts(rest, end) ==
            IF ~starts_with(rest, <<"[">>) THEN None
            ELSE IF end < 0 THEN None
            ELSE Some(split(SubSeq(rest, 2, end), ","))
        value(found) ==
            IF ~is_ok(found) THEN None
            ELSE parts(unwrap(found), find_from(unwrap(found), <<"]">>, 0))
    IN  value(after_key(json, key))

extract_json_position(json, key) ==
    LET pair(x, y) ==
            IF ~is_ok(x) \/ ~is_ok(y) THEN None ELSE Some(<<unwrap(x), unwrap(y)>>)
        value(parts) ==
            IF ~is_ok(parts) THEN None
            ELSE IF Len(unwrap(parts)) < 2 THEN None
            ELSE pair(parse_i32(trim(unwrap(parts)[1])),
                      parse_i32(trim(unwrap(parts)[2])))
    IN  value(array_parts(json, key))

extract_json_size(json, key) ==
    LET pair(w, h) ==
            IF ~is_ok(w) \/ ~is_ok(h) THEN None ELSE Some(<<unwrap(w), unwrap(h)>>)
        value(parts) ==
            IF ~is_ok(parts) THEN None
            ELSE IF Len(unwrap(parts)) < 2 THEN None
            ELSE pair(ok_u32(parse_u32(trim(unwrap(parts)[1]))),
                      ok_u32(parse_u32(trim(unwrap(parts)[2]))))
    IN  value(array_parts(json, key))

-----------------------------------------------------------------------------
(* The Hyprland listing.                                                   *)

(* The thread panicked inside the operation `by`: no value is returned.    *)
Panicked(by) == [ok |-> FALSE, err |-> "panic", by |-> by, val |-> <<>>]

parse_hyprland_client_object(obj_str) ==
    LET info(address, title, class, at, size, focus) ==
            IF panicked(address) THEN Panic
            ELSE IF ~is_ok(address) THEN None
            ELSE IF panicked(title) \/ panicked(class) THEN Panic
            ELSE Some(
                [id |-> unwrap_or(from_str_radix_16(
                            trim_start_matches(unwrap(address), <<"0", "x">>)), 0),
                 pid |-> unwrap_or(extract_json_number(obj_str, <<"p", "i", "d">>), 0),
                 app_name |-> unwrap_or(class, <<>>),
                 title |-> unwrap_or(title, <<>>),
                 x |-> at[1], y |-> at[2], z |-> 0,
                 width |-> size[1], height |-> size[2],
                 is_minimized |->
                     unwrap_or(extract_json_bool_field(obj_str, <<"h", "i", "d", "d", "e", "n">>), FALSE),
                 is_maximized |->
                     unwrap_or(extract_json_bool_field(obj_str, <<"f", "u", "l", "l", "s", "c", "r", "e", "e", "n">>), FALSE),
                 is_focused |-> is_ok(focus) /\ unwrap(focus) = 0])
    IN  info(extract_json_hex_value(obj_str, <<"a", "d", "d", "r", "e", "s", "s">>),
             extract_json_string(obj_str, <<"t", "i", "t", "l", "e">>),
             extract_json_string(obj_str, <<"c", "l", "a", "s", "s">>),
             unwrap_or(extract_json_position(obj_str, <<"a", "t">>), <<0, 0>>),
             unwrap_or(extract_json_size(obj_str, <<"s", "i", "z", "e">>), <<0, 0>>),
             extract_json_bool(obj_str, <<"f", "o", "c", "u", "s", "H", "i", "s", "t", "o", "r", "y", "I", "D">>))

(* One turn of the for loop of parse_hyprland_json, for the i-th char of   *)
(* content: slices are the values of &content[start..=i] taken so far,     *)
(* the last one a panic when taking it panicked.                           *)
object_step(content, s, i) ==
    LET taken(obj_str) ==
            [s EXCEPT !.depth = 0, !.slices = Append(s.slices, obj_str),
                      !.panicked = panicked(obj_str)]
    IN  IF s.panicked THEN s
        ELSE IF s.escape_next THEN [s EXCEPT !.escape_next = FALSE]
        ELSE IF content[i + 1] = "\\" /\ s.in_string
             THEN [s EXCEPT !.escape_next = TRUE]
        ELSE IF content[i + 1] = "\"" THEN [s EXCEPT !.in_string = ~s.in_string]
        ELSE IF content[i + 1] = "{" /\ ~s.in_string
             THEN [s EXCEPT !.start = IF s.depth = 0 THEN i ELSE s.start,
                            !.depth = s.depth + 1]
        ELSE IF content[i + 1] = "}" /\ ~s.in_string
             THEN IF s.depth - 1 = 0
                  THEN taken(str_index(content, s.start, i + 1))
                  ELSE [s EXCEPT !.depth = s.depth - 1]
        ELSE s

RECURSIVE object_turns(_, _, _, _)
object_turns(content, s, lo, hi) ==
    IF lo >= hi THEN s
    ELSE IF hi = lo + 1 THEN object_step(content, s, lo)
    ELSE LET rest(first) ==
                 IF first.panicked THEN first
                 ELSE object_turns(content, first, (lo + hi) \div 2, hi)
         IN  rest(object_turns(content, s, lo, (lo + hi) \div 2))

(* The obj_str values parse_hyprland_json(json_str) takes when parsing the *)
(* objects does not stop it, each Some(slice), the last one a panic when   *)
(* taking it panicked; for json_str that passes the bracket test.          *)
hyprland_objects(json_str) ==
    LET slices(content) ==
            object_turns(content,
                         [depth |-> 0, start |-> 0, in_string |-> FALSE,
                          escape_next |-> FALSE, slices |-> <<>>,
                          panicked |-> FALSE],
                         0, Len(content)).slices
    IN  slices(SubSeq(trim(json_str), 2, Len(trim(json_str)) - 1))

(* The values of an Option sequence that are Some, in order.               *)
RECURSIVE flatten(_)
flatten(options) ==
    IF options = <<>> THEN <<>>
    ELSE (IF is_ok(Head(options)) THEN <<unwrap(Head(options))>> ELSE <<>>)
            \o flatten(Tail(options))

(* What the loop makes of each slice: the panic of taking it, or the value *)
(* of parse_hyprland_client_object.                                        *)
client_infos(slices) ==
    [k \in 1..Len(slices) |->
        IF panicked(slices[k]) THEN Panic
        ELSE parse_hyprland_client_object(unwrap(slices[k]))]

parse_hyprland_json(json_str) ==
    LET windows(trimmed, infos) ==
            IF ~starts_with(trimmed, <<"[">>) \/ ~ends_with(trimmed, <<"]">>)
            THEN Err("EnumerationFailed", "hyprctl")
            ELSE IF \E k \in 1..Len(infos) : panicked(infos[k])
                 THEN Panicked("hyprctl")
            ELSE Ok("hyprctl", flatten(infos))
    IN  windows(trim(json_str), client_infos(hyprland_objects(json_str)))

list_windows_hyprland(o, stdout) ==
    LET hyprctl == Call("hyprctl", <<"clients", "-j">>, o["hyprctl"])
    IN  IF o["hyprctl"] \in {"spawn_err", "nonzero"}
        THEN Ran(Err("EnumerationFailed", "hyprctl"), <<hyprctl>>)
        ELSE Ran(parse_hyprland_json(stdout["hyprctl"]), <<hyprctl>>)

-----------------------------------------------------------------------------
(* The Sway listing.  Everything here counts bytes; bytes of a multi-byte  *)
(* char match none of the arms, so char offsets give the same result.      *)

(* One turn of the for loop of find_object_start at index i.               *)
object_start_step(json, s, i) ==
    IF is_ok(s.found) THEN s
    ELSE IF json[i + 1] = "}" THEN [s EXCEPT !.depth = s.depth + 1]
    ELSE IF json[i + 1] = "{"
         THEN IF s.depth = 0 THEN [s EXCEPT !.found = Some(i)]
              ELSE [s EXCEPT !.depth = s.depth - 1]
    ELSE s

(* The turns hi-1 down to lo.                                              *)
RECURSIVE object_start_turns(_, _, _, _)
object_start_turns(json, s, lo, hi) ==
    IF lo >= hi THEN s
    ELSE IF hi = lo + 1 THEN object_start_step(json, s, lo)
    ELSE LET rest(first) ==
                 IF is_ok(first.found) THEN first
                 ELSE object_start_turns(json, first, lo, (lo + hi) \div 2)
         IN  rest(object_start_turns(json, s, (lo + hi) \div 2, hi))

find_object_start(json, pos) ==
    object_start_turns(json, [depth |-> 0, found |-> None], 0, pos).found

(* One turn of the for loop of find_object_end at index i of json.         *)
object_end_step(json, s, i) ==
    IF is_ok(s.found) THEN s
    ELSE IF s.escape_next THEN [s EXCEPT !.escape_next = FALSE]
    ELSE IF json[i + 1] = "\\" /\ s.in_string THEN [s EXCEPT !.escape_next = TRUE]
    ELSE IF json[i + 1] = "\"" THEN [s EXCEPT !.in_string = ~s.in_string]
    ELSE IF json[i + 1] = "{" /\ ~s.in_string THEN [s EXCEPT !.depth = s.depth + 1]
    ELSE IF json[i + 1] = "}" /\ ~s.in_string
         THEN IF s.depth - 1 = 0 THEN [s EXCEPT !.depth = 0, !.found = Some(i)]
              ELSE [s EXCEPT !.depth = s.depth - 1]
    ELSE s

RECURSIVE object_end_turns(_, _, _, _)
object_end_turns(json, s, lo, hi) ==
    IF lo >= hi THEN s
    ELSE IF hi = lo + 1 THEN object_end_step(json, s, lo)
    ELSE LET rest(first) ==
                 IF is_ok(first.found) THEN first
                 ELSE object_end_turns(json, first, (lo + hi) \div 2, hi)
         IN  rest(object_end_turns(json, s, lo, (lo + hi) \div 2))

find_object_end(json, start) ==
    object_end_turns(json,
                     [depth |-> 0, in_string |-> FALSE, escape_next |-> FALSE,
                      found |-> None],
                     start, Len(json)).found

(* parse_sway_rect: None, Some(<<x, y, width, height>>), or a panic when   *)
(* the first '}' lies more than one byte before the first '{'.             *)
parse_sway_rect(obj_str) ==
    LET numbers(rect_obj) ==
            <<unwrap_or(extract_json_number(rect_obj, <<"x">>), 0),
              unwrap_or(extract_json_number(rect_obj, <<"y">>), 0),
              unwrap_or(extract_json_number(rect_obj, <<"w", "i", "d", "t", "h">>), 0),
              unwrap_or(extract_json_number(rect_obj, <<"h", "e", "i", "g", "h", "t">>), 0)>>
        braces(rest, brace_start, brace_end) ==
            IF brace_start < 0 \/ brace_end < 0 THEN None
            ELSE IF brace_start > brace_end + 1 THEN Panic
            ELSE Some(numbers(SubSeq(rest, brace_start + 1, brace_end + 1)))
        from(rest) ==
            braces(rest, find_from(rest, <<"{">>, 0), find_from(rest, <<"}">>, 0))
        rect(rect_start) ==
            IF rect_start < 0 THEN None
            ELSE from(SubSeq(obj_str, rect_start + 1, Len(obj_str)))
    IN  rect(find_from(obj_str, <<"\"", "r", "e", "c", "t", "\"", ":">>, 0))

parse_sway_node(obj_str) ==
    LET info(id, title, app_id, class, parsed_rect, rect) ==
            IF ~is_ok(id) THEN None
            ELSE IF panicked(title) \/ panicked(app_id) THEN Panic
            ELSE IF ~is_ok(app_id) /\ panicked(class) THEN Panic
            ELSE IF panicked(parsed_rect) THEN Panic
            ELSE Some(
                [id |-> unwrap(id),
                 pid |-> unwrap_or(extract_json_number(obj_str, <<"p", "i", "d">>), 0),
                 app_name |-> IF is_ok(app_id) THEN unwrap(app_id)
                              ELSE unwrap_or(class, <<>>),
                 title |-> unwrap_or(title, <<>>),
                 x |-> rect[1], y |-> rect[2], z |-> 0,
                 width |-> rect[3], height |-> rect[4],
                 is_minimized |-> FALSE,
                 is_maximized |->
                     is_ok(extract_json_bool_field(obj_str, <<"f", "u", "l", "l", "s", "c", "r", "e", "e", "n", "_", "m", "o", "d", "e">>)),
                 is_focused |->
                     unwrap_or(extract_json_bool_field(obj_str, <<"f", "o", "c", "u", "s", "e", "d">>), FALSE)])
        with_rect(id, title, app_id, class, parsed_rect) ==
            info(id, title, app_id, class, parsed_rect,
                 unwrap_or(parsed_rect, <<0, 0, 0, 0>>))
    IN  with_rect(extract_json_number(obj_str, <<"i", "d">>),
                  extract_json_string(obj_str, <<"n", "a", "m", "e">>),
                  extract_json_string(obj_str, <<"a", "p", "p", "_", "i", "d">>),
                  extract_json_string(obj_str, <<"c", "l", "a", "s", "s">>),
                  parse_sway_rect(obj_str))

(* extract_sway_windows: the while loop from search_pos on; the windows    *)
(* pushed so far, or a panic.                                              *)
RECURSIVE extract_sway_windows(_, _, _)
extract_sway_windows(json_str, search_pos, windows) ==
    LET pushed(obj_end, is_window, info) ==
            IF is_window /\ panicked(info) THEN Panic
            ELSE extract_sway_windows(
                     json_str, obj_end + 1,
                     IF is_window /\ is_ok(info)
                        /\ (\A k \in 1..Len(windows) :
                                windows[k].id # unwrap(info).id)
                     THEN Append(windows, unwrap(info))
                     ELSE windows)
        node(obj_end, obj_str) ==
            pushed(obj_end,
                   contains(obj_str, <<"\"", "a", "p", "p", "_", "i", "d", "\"">>)
                      \/ contains(obj_str, <<"\"", "w", "i", "n", "d", "o", "w", "_", "p", "r", "o", "p", "e", "r", "t", "i", "e", "s", "\"">>),
                   parse_sway_node(obj_str))
        ends(abs_pos, obj_start, obj_end) ==
            IF ~is_ok(obj_end)
            THEN extract_sway_windows(json_str, abs_pos + 6, windows)
            ELSE node(unwrap(obj_end),
                      SubSeq(json_str, unwrap(obj_start) + 1, unwrap(obj_end) + 1))
        starts(abs_pos, obj_start) ==
            ends(abs_pos, obj_start,
                 IF is_ok(obj_start)
                 THEN find_object_end(json_str, unwrap(obj_start))
                 ELSE None)
        found(abs_pos) ==
            IF abs_pos < 0 THEN Some(windows)
            ELSE starts(abs_pos, find_object_start(json_str, abs_pos))
    IN  found(find_from(json_str, <<"\"", "p", "i", "d", "\"", ":">>, search_pos))

parse_sway_tree(json_str) ==
    LET listed(windows) ==
            IF panicked(windows) THEN Panicked("swaymsg")
            ELSE Ok("swaymsg", unwrap(windows))
    IN  listed(extract_sway_windows(json_str, 0, <<>>))

list_windows_sway(o, stdout) ==
    LET swaymsg == Call("swaymsg", <<"-t", "get_tree">>, o["swaymsg"])
    IN  IF o["swaymsg"] \in {"spawn_err", "nonzero"}
        THEN Ran(Err("EnumerationFailed", "swaymsg"), <<swaymsg>>)
        ELSE Ran(parse_sway_tree(stdout["swaymsg"]), <<swaymsg>>)

(* str::split_whitespace: the maximal runs of non-whitespace chars.        *)
RECURSIVE split_whitespace(_)
split_whitespace(s) ==
    LET words(t, stops) ==
            IF t = <<>> THEN <<>>
            ELSE IF stops = {} THEN <<t>>
            ELSE <<SubSeq(t, 1, (CHOOSE i \in stops : \A j \in stops : i <= j) - 1)>>
                    \o split_whitespace(
                           SubSeq(t, CHOOSE i \in stops : \A j \in stops : i <= j,
                                  Len(t)))
        from(t) == words(t, {i \in 1..Len(t) : is_whitespace(t[i])})
    IN  from(trim_start(s))

extract_gvariant_string(text, prefix) ==
    LET closed(content, end) ==
            IF end < 0 THEN None ELSE Some(SubSeq(content, 1, end))
        quoted(rest, quote) ==
            IF ~starts_with(rest, <<"<">>) /\ ~starts_with(rest, <<"'">>) THEN None
            ELSE IF quote < 0 THEN None
            ELSE closed(SubSeq(rest, quote + 2, Len(rest)),
                        find_from(SubSeq(rest, quote + 2, Len(rest)), <<"'">>, 0))
        from(rest) == quoted(rest, find_from(rest, <<"'">>, 0))
        value(found) ==
            IF found < 0 THEN None
            ELSE from(trim_start(SubSeq(text, found + Len(prefix) + 1, Len(text))))
    IN  value(find_from(text, prefix, 0))

extract_gvariant_number(text) ==
    LET first(words, numbers) ==
            IF numbers = {} THEN None
            ELSE ok_u32(parse_u32(
                     words[CHOOSE k \in numbers : \A j \in numbers : k <= j]))
        among(words) ==
            first(words,
                  {k \in 1..Len(words) :
                      \A i \in 1..Len(words[k]) : is_ascii_digit(words[k][i])})
        from(rest) ==
            among(split_whitespace(IF starts_with(rest, <<"<">>) THEN Tail(rest)
                                   ELSE rest))
        value(found) ==
            IF found < 0 THEN None
            ELSE from(trim_start(SubSeq(text, found + 7, Len(text))))
    IN  value(find_from(text, <<"'", "p", "i", "d", "'", ":">>, 0))

extract_gvariant_dimension(text) ==
    LET digits(rest, stops) ==
            IF stops = {} THEN ok_u32(parse_u32(rest))
            ELSE IF (CHOOSE i \in stops : \A j \in stops : i <= j) = 1 THEN None
            ELSE ok_u32(parse_u32(
                     SubSeq(rest, 1,
                            (CHOOSE i \in stops : \A j \in stops : i <= j) - 1)))
        from(rest) ==
            IF rest = <<>> THEN None
            ELSE digits(rest, {i \in 1..Len(rest) : ~is_ascii_digit(rest[i])})
        value(colon_pos) ==
            IF colon_pos < 0 THEN None
            ELSE from(trim_start(SubSeq(text, colon_pos + 2, Len(text))))
    IN  value(find_from(text, <<":">>, 0))

extract_gnome_dimensions(text) ==
    LET dimension(at) ==
            IF at < 0 THEN 0
            ELSE unwrap_or(extract_gvariant_dimension(
                               SubSeq(text, at + 1, Len(text))), 0)
        size(width, height) ==
            IF width # 0 /\ height # 0 THEN Some(<<width, height>>) ELSE None
    IN  size(dimension(find_from(text, <<"'", "w", "i", "d", "t", "h", "'", ":">>, 0)),
             dimension(find_from(text, <<"'", "h", "e", "i", "g", "h", "t", "'", ":">>, 0)))

s_wm_class == <<"'", "w", "m", "-", "c", "l", "a", "s", "s", "'", ":">>

(* The while loop of parse_gnome_introspect_output: one WindowInfo per     *)
(* marker found, the search resuming 10 bytes after each.                  *)
RECURSIVE gnome_windows_from(_, _, _)
gnome_windows_from(output, search_pos, window_id) ==
    LET info(abs_pos, here, title_pos, pid_pos, size) ==
            [id |-> window_id,
             pid |-> IF pid_pos < 0 THEN 0
                     ELSE unwrap_or(extract_gvariant_number(
                                        SubSeq(here, pid_pos + 1, Len(here))), 0),
             app_name |-> unwrap_or(extract_gvariant_string(
                                        SubSeq(output, abs_pos + 1, Len(output)),
                                        s_wm_class), <<>>),
             title |-> IF title_pos < 0 THEN <<>>
                       ELSE unwrap_or(extract_gvariant_string(
                                          SubSeq(here, title_pos + 1, Len(here)),
                                          <<"'", "t", "i", "t", "l", "e", "'", ":">>), <<>>),
             x |-> 0, y |-> 0, z |-> 0, width |-> size[1], height |-> size[2],
             is_minimized |-> FALSE, is_maximized |-> FALSE, is_focused |-> FALSE]
        window(abs_pos, here) ==
            info(abs_pos, here, find_from(here, <<"'", "t", "i", "t", "l", "e", "'", ":">>, 0),
                 find_from(here, <<"'", "p", "i", "d", "'", ":">>, 0),
                 unwrap_or(extract_gnome_dimensions(here), <<0, 0>>))
        found(abs_pos) ==
            IF abs_pos < 0 THEN <<>>
            ELSE <<window(abs_pos, SubSeq(output, search_pos + 1, Len(output)))>>
                    \o gnome_windows_from(output, abs_pos + 10, window_id + 1)
    IN  found(find_from(output, s_wm_class, search_pos))

(* The same with the ids counted from 0.                                   *)
parse_gnome_introspect_output_from_zero(output, world) ==
    LET listed(windows) ==
            IF windows = <<>>
            THEN list_windows_xcap(world)
            ELSE Ran(Ok("gdbus", windows), <<>>)
    IN  listed(gnome_windows_from(output, 0, 0))

parse_gnome_introspect_output(output, world) ==
    LET listed(windows) ==
            IF windows = <<>>
            THEN list_windows_xcap(world)
            ELSE Ran(Ok("gdbus", windows), <<>>)
    IN  listed(gnome_windows_from(output, 0, 1))

(* The result of a listing that ran after the Commands `calls`.            *)
after(calls, listing) == Ran(listing.result, calls \o listing.calls)

list_windows_gnome_wayland_no_fallback(o, stdout, world) ==
    LET gdbus == Call("gdbus", <<"Introspect.GetWindows">>, o["gdbus"])
    IN  IF o["gdbus"] = "ok"
        THEN after(<<gdbus>>, parse_gnome_introspect_output(stdout["gdbus"], world))
        ELSE Ran(Err("EnumerationFailed", "gdbus"), <<gdbus>>)

list_windows_gnome_wayland(o, stdout, world) ==
    LET gdbus == Call("gdbus", <<"Introspect.GetWindows">>, o["gdbus"])
    IN  after(<<gdbus>>,
              IF o["gdbus"] = "ok"
              THEN parse_gnome_introspect_output(stdout["gdbus"], world)
              ELSE list_windows_xcap(world))

(* The ids of parse_kdotool_output: the lines that parse as u32.           *)
RECURSIVE kdotool_ids(_)
kdotool_ids(ls) ==
    IF ls = <<>> THEN <<>>
    ELSE LET id == parse_u32(trim(Head(ls)))
         IN  (IF is_ok(id) THEN <<unwrap(id)>> ELSE <<>>) \o kdotool_ids(Tail(ls))

(* What kdotool getwindowname prints, trimmed, when it succeeds.           *)
s_kdotool_title == <<"k">>

(* titles[k] is the outcome of kdotool getwindowname for the k-th id.      *)
parse_kdotool_output(output, titles, world) ==
    LET listed(ids) ==
            IF ids = <<>>
            THEN list_windows_xcap(world)
            ELSE Ran(Ok("kdotool",
                        [k \in 1..Len(ids) |->
                            [id |-> u32_value(ids[k]), pid |-> 0, app_name |-> <<>>,
                             title |-> IF titles[k] = "ok" THEN s_kdotool_title
                                       ELSE <<>>,
                             x |-> 0, y |-> 0, z |-> 0, width |-> 0, height |-> 0,
                             is_minimized |-> FALSE, is_maximized |-> FALSE,
                             is_focused |-> FALSE]]),
                     [k \in 1..Len(ids) |->
                         Call("kdotool", <<"getwindowname", ids[k]>>, titles[k])])
    IN  listed(kdotool_ids(lines(output)))

parse_kde_dbus_output(output, world) == list_windows_xcap(world)

list_windows_kde_wayland(o, stdout, titles, world) ==
    LET gdbus == Call("gdbus", <<"KWin.queryWindowInfo">>, o["gdbus"])
        kdotool == Call("kdotool", <<"search", "--name", "">>, o["kdotool"])
    IN  after(<<gdbus, kdotool>>,
              IF o["kdotool"] = "ok"
              THEN parse_kdotool_output(stdout["kdotool"], titles, world)
              ELSE IF o["gdbus"] = "ok"
                   THEN parse_kde_dbus_output(stdout["gdbus"], world)
              ELSE list_windows_xcap(world))

(* The Commands a backend's listing starts with.                           *)
ListCommands(backend) ==
    CASE backend = "Hyprland" -> {"hyprctl"}
      [] backend = "Sway" -> {"swaymsg"}
      [] backend = "GnomeWayland" -> {"gdbus"}
      [] backend = "KdeWayland" -> {"gdbus", "kdotool"}
      [] OTHER -> {}

list_windows_with_backend(backend, o, stdout, titles, world) ==
    CASE backend = "Hyprland" -> list_windows_hyprland(o, stdout)
      [] backend = "Sway" -> list_windows_sway(o, stdout)
      [] backend = "GnomeWayland" -> list_windows_gnome_wayland(o, stdout, world)
      [] backend = "KdeWayland" -> list_windows_kde_wayland(o, stdout, titles, world)
      [] OTHER -> list_windows_xcap(world)

list_windows_for_session(session, o, stdout, titles, world) ==
    list_windows_with_backend(window_list_backend(session), o, stdout, titles, world)

(* window.rs, after DesktopSession::detect(): the listing of the session's *)
(* backend, and the same without the minimized windows.                    *)
list_all_windows(session, o, stdout, titles, world) ==
    list_windows_for_session(session, o, stdout, titles, world)

list_capturable_windows_unfiltered(session, o, stdout, titles, world) ==
    list_windows_for_session(session, o, stdout, titles, world)

list_capturable_windows(session, o, stdout, titles, world) ==
    LET capturable(listed) ==
            IF listed.result.ok
            THEN Ran(Ok(listed.result.by,
                        SelectSeq(listed.result.val, LAMBDA w : ~w.is_minimized)),
                     listed.calls)
            ELSE listed
    IN  capturable(list_windows_for_session(session, o, stdout, titles, world))

-----------------------------------------------------------------------------
(* capture/screen.rs.  Errors are Strings: err is "String", by the method  *)
(* that built the message.                                                 *)

(* a.or_else(|_| b): b runs only when a failed, and its result stands.     *)
result_or_else(a, b) ==
    IF a.result.ok THEN a ELSE Ran(b.result, a.calls \o b.calls)

capture_with_grim(o) ==
    LET grim == Call("grim", <<"temp_path">>, o["grim"])
    IN  IF o["grim"] = "ok"
        THEN Ran(Ok("grim", "pixbuf"), <<grim>>)
        ELSE Ran(Err("String", "grim"), <<grim>>)

capture_with_gnome_screenshot(o) ==
    LET gnome == Call("gnome-screenshot", <<"-f", "temp_path">>, o["gnome-screenshot"])
    IN  IF o["gnome-screenshot"] = "ok"
        THEN Ran(Ok("gnome-screenshot", "pixbuf"), <<gnome>>)
        ELSE Ran(Err("String", "gnome-screenshot"), <<gnome>>)

capture_with_spectacle(o) ==
    LET spectacle ==
            Call("spectacle", <<"-b", "-n", "-f", "-o", "temp_path">>, o["spectacle"])
    IN  IF o["spectacle"] = "ok"
        THEN Ran(Ok("spectacle", "pixbuf"), <<spectacle>>)
        ELSE Ran(Err("String", "spectacle"), <<spectacle>>)

capture_screen_wayland_grim_first(session, o) ==
    LET de == session.desktop_environment.tag
    IN  CASE de \in {"Hyprland", "Sway"} -> capture_with_grim(o)
          [] de = "Gnome" ->
                result_or_else(capture_with_grim(o), capture_with_gnome_screenshot(o))
          [] de = "Kde" ->
                result_or_else(capture_with_grim(o), capture_with_spectacle(o))
          [] OTHER ->
                result_or_else(
                    result_or_else(capture_with_grim(o),
                                   capture_with_gnome_screenshot(o)),
                    capture_with_spectacle(o))

capture_screen_wayland(session, o) ==
    LET de == session.desktop_environment.tag
    IN  CASE de \in {"Hyprland", "Sway"} -> capture_with_grim(o)
          [] de = "Gnome" ->
                result_or_else(capture_with_gnome_screenshot(o), capture_with_grim(o))
          [] de = "Kde" ->
                result_or_else(capture_with_spectacle(o), capture_with_grim(o))
          [] OTHER ->
                result_or_else(
                    result_or_else(capture_with_grim(o),
                                   capture_with_gnome_screenshot(o)),
                    capture_with_spectacle(o))

(* capture_monitor_internal: MonitorInfo::from_xcap, capture_image, and    *)
(* the conversion, which cannot fail; grab is how the monitor's calls end. *)
capture_monitor_internal(monitor) ==
    LET grab == Call("xcap", <<"Monitor::capture_image">>, monitor.grab)
    IN  IF monitor.grab = "info_err" THEN Ran(Err("String", "xcap"), <<>>)
        ELSE IF monitor.grab = "capture_err" THEN Ran(Err("String", "xcap"), <<grab>>)
        ELSE Ran(Ok("xcap", "pixbuf"), <<grab>>)

(* monitors is what xcap::Monitor::all() gives: None when it fails.        *)
capture_screen_xcap(monitors) ==
    LET all == Call("xcap", <<"Monitor::all">>,
                    IF is_ok(monitors) THEN "ok" ELSE "err")
        ms == unwrap(monitors)
        is_primary == {i \in 1..Len(ms) : ms[i].is_primary}
        monitor == or_else(find_first(ms, is_primary),
                           IF ms = <<>> THEN None ELSE Some(Head(ms)))
        grabbed == capture_monitor_internal(unwrap(monitor))
    IN  IF ~is_ok(monitors) THEN Ran(Err("String", "xcap"), <<all>>)
        ELSE IF ~is_ok(monitor) THEN Ran(Err("String", "xcap"), <<all>>)
        ELSE Ran(grabbed.result, <<all>> \o grabbed.calls)

capture_for_display_server(session, o, monitors) ==
    CASE session.display_server = "Wayland" -> capture_screen_wayland(session, o)
      [] session.display_server = "X11" -> capture_screen_xcap(monitors)
      [] OTHER -> result_or_else(capture_screen_wayland(session, o),
                                 capture_screen_xcap(monitors))

(* The Commands capture_screen_wayland can run for a session.              *)
ScreenCommands(session) ==
    LET de == session.desktop_environment.tag
    IN  CASE session.display_server = "X11" -> {}
          [] de \in {"Hyprland", "Sway"} -> {"grim"}
          [] de = "Gnome" -> {"gnome-screenshot", "grim"}
          [] de = "Kde" -> {"spectacle", "grim"}
          [] OTHER -> {"grim", "gnome-screenshot", "spectacle"}

-----------------------------------------------------------------------------
(* The file at temp_path.  Every capture Command is given temp_path to      *)
(* write; the caller then loads it with load_pixbuf_from_file and removes   *)
(* it with std::fs::remove_file.  A file is None (absent) or Some of who    *)
(* wrote it and whether it decodes.  wrote is the set of Commands that      *)
(* left a file at temp_path in this call without a load that succeeded; at  *)
(* is the file and whether the outcomes seen so far can follow from it: a   *)
(* load that fails cannot have read a file that decodes.                    *)

temp_file(by, decodes) == Some([by |-> by, decodes |-> decodes])

no_temp_file == [file |-> None, possible |-> TRUE]

decodable(file) == is_ok(file) /\ unwrap(file).decodes

(* The Command a Call ran, as CaptureCommands and ScreenCommands name it.   *)
command_of(call) ==
    CASE call.tool = "spectacle" /\ call.args = <<"-r">> -> "spectacle -r"
      [] call.tool = "spectacle" /\ call.args = <<"-a">> -> "spectacle -a"
      [] OTHER -> call.tool

(* One Command and what its caller does next: status zero and the file      *)
(* decodes, then the file is removed; in every other case the code leaves   *)
(* temp_path as the Command left it.  The file of spectacle -r is never     *)
(* loaded and never removed by its caller.                                  *)
after_command(at, call, wrote) ==
    LET cmd == command_of(call)
        left == IF cmd \in wrote THEN temp_file(cmd, call.outcome = "ok")
                ELSE at.file
    IN  CASE call.tool = "xcap" -> at
          [] cmd = "spectacle -r" -> [at EXCEPT !.file = left]
          [] call.outcome = "ok" -> [at EXCEPT !.file = None]
          [] call.outcome = "load_err" ->
                [file |-> left,
                 possible |-> at.possible /\ (cmd \in wrote \/ ~decodable(at.file))]
          [] OTHER -> [at EXCEPT !.file = left]

RECURSIVE temp_file_after(_, _, _)
temp_file_after(at, calls, wrote) ==
    IF calls = <<>> THEN at
    ELSE temp_file_after(after_command(at, Head(calls), wrote), Tail(calls), wrote)

(* The Commands of calls that ran to an exit status, which only then can    *)
(* have written; one that ended well and was loaded leaves nothing.         *)
Writers(calls) ==
    {command_of(calls[i]) : i \in {j \in 1..Len(calls) :
        /\ calls[j].tool # "xcap"
        /\ \/ calls[j].outcome \in {"nonzero", "load_err"}
           \/ command_of(calls[j]) = "spectacle -r" /\ calls[j].outcome = "ok"}}

(* capture_window: temp_path is /tmp/screenshot_gnome_{pid}.png in every    *)
(* backend, and no backend removes it but after a load that succeeded.      *)
window_temp_file(calls, wrote) == temp_file_after(no_temp_file, calls, wrote)

(* capture_screen_wayland: if result.is_err() { remove_file(&temp_path) }.  *)
remove_if_err_never(result, at) == at

remove_if_err(result, at) ==
    IF result.ok THEN at ELSE [at EXCEPT !.file = None]

(* capture_primary_monitor: temp_path is                                    *)
(* /tmp/screenshot_gnome_screen_{pid}.png, used by capture_screen_wayland   *)
(* alone; xcap writes no file.                                              *)
screen_temp_file(session, o, wrote) ==
    LET cleaned(wayland) ==
            remove_if_err(wayland.result,
                          temp_file_after(no_temp_file, wayland.calls, wrote))
    IN  IF session.display_server = "X11" THEN no_temp_file
        ELSE cleaned(capture_screen_wayland(session, o))

-----------------------------------------------------------------------------
(* Rectangles from two corners.  Coordinates are f64; the model holds an   *)
(* f64 as its count of halves, so 21 is 10.5, and takes corners exact to   *)
(* the half.  An i32 is held as itself.                                    *)

f64(n) == n + n

abs(v) == IF v < 0 THEN -v ELSE v

(* v as i32 of an f64: the fraction is dropped, towards zero.              *)
f64_as_i32(v) == IF v >= 0 THEN v \div 2 ELSE -((-v) \div 2)

Rect(x, y, width, height) == [x |-> x, y |-> y, width |-> width, height |-> height]

(* editor/annotations.rs, RectangleAnnotation::from_corners.               *)
from_corners(x1, y1, x2, y2) ==
    Rect(min(x1, x2), min(y1, y2), abs(x2 - x1), abs(y2 - y1))

(* editor/tools.rs, ToolState::get_drag_rect: None unless a drag is on.    *)
get_drag_rect(drag_start, drag_current) ==
    LET rect(start, current) ==
            Rect(min(start[1], current[1]), min(start[2], current[2]),
                 abs(current[1] - start[1]), abs(current[2] - start[2]))
    IN  IF is_ok(drag_start) /\ is_ok(drag_current)
        THEN Some(rect(unwrap(drag_start), unwrap(drag_current)))
        ELSE None

(* app/state.rs, Selection::rectangle: a gdk::Rectangle of i32.            *)
rectangle_signed(start_x, start_y, end_x, end_y) ==
    Rect(f64_as_i32(min(start_x, end_x)), f64_as_i32(min(start_y, end_y)),
         f64_as_i32(start_x - end_x), f64_as_i32(start_y - end_y))

rectangle(start_x, start_y, end_x, end_y) ==
    Rect(f64_as_i32(min(start_x, end_x)), f64_as_i32(min(start_y, end_y)),
         f64_as_i32(abs(start_x - end_x)), f64_as_i32(abs(start_y - end_y)))

-----------------------------------------------------------------------------

-----------------------------------------------------------------------------
(* The application state (app/state.rs AppState behind Rc<RefCell<..>>)    *)
(* and the editor inside it.  Coordinates are f64 held as counts of halves *)
(* as above; a Pixbuf is its width and height.  Colours, line widths and   *)
(* the colour picker never decide a branch and are left out.               *)

Pixbuf(width, height) == [width |-> width, height |-> height]

(* Pixbuf::new_subpixbuf(x, y, width, height).                             *)
new_subpixbuf(pixbuf, x, y, width, height) == Pixbuf(width, height)

(* editor/tools.rs, impl Default for ToolState.                            *)
ToolState_default ==
    [active_tool |-> "Pointer", is_drawing |-> FALSE, drag_start |-> None,
     drag_current |-> None, pointer_drag_offset |-> None,
     is_dragging_annotation |-> FALSE]

(* editor/annotations.rs, AnnotationList::new.                             *)
AnnotationList_new ==
    [annotations |-> <<>>, current_annotation |-> None, selected_index |-> None]

(* editor/mod.rs, impl Default for EditorState.                            *)
EditorState_default ==
    [tool_state |-> ToolState_default, annotations |-> AnnotationList_new,
     pending_text |-> None, display_scale |-> f64(1),
     display_offset_x |-> f64(0), display_offset_y |-> f64(0)]

(* app/state.rs, AppState::new.                                            *)
AppState_new ==
    [mode |-> "Selection", original_screenshot |-> None, final_image |-> None,
     selection |-> None, is_active |-> FALSE, editor |-> EditorState_default,
     is_crop_mode |-> FALSE, delay_seconds |-> 0]

(* The three kinds of Annotation.  A FreeDraw holds its points in order.   *)
RectangleAnnotation_new(x, y, width, height) ==
    [kind |-> "Rectangle", x |-> x, y |-> y, width |-> width, height |-> height]

RectangleAnnotation_from_corners(x1, y1, x2, y2) ==
    LET r == from_corners(x1, y1, x2, y2)
    IN  RectangleAnnotation_new(r.x, r.y, r.width, r.height)

FreeDrawAnnotation_new == [kind |-> "FreeDraw", points |-> <<>>]

add_point(draw, x, y) == [draw EXCEPT !.points = Append(@, <<x, y>>)]

TextAnnotation_new(x, y, text) == [kind |-> "Text", x |-> x, y |-> y, text |-> text]

(* ToolState: set_tool, start_drag, update_drag, end_drag, reset_drag and  *)
(* the annotation drag.                                                    *)
reset_drag(ts) ==
    [ts EXCEPT !.is_drawing = FALSE, !.drag_start = None, !.drag_current = None,
               !.pointer_drag_offset = None, !.is_dragging_annotation = FALSE]

ToolState_set_tool(ts, tool) == reset_drag([ts EXCEPT !.active_tool = tool])

start_drag(ts, x, y) ==
    [ts EXCEPT !.is_drawing = TRUE, !.drag_start = Some(<<x, y>>),
               !.drag_current = Some(<<x, y>>)]

update_drag(ts, x, y) ==
    IF ts.is_drawing THEN [ts EXCEPT !.drag_current = Some(<<x, y>>)] ELSE ts

(* end_drag returns Some((start, end)) and resets the drag.                *)
end_drag_result(ts) ==
    IF is_ok(ts.drag_start) /\ is_ok(ts.drag_current)
    THEN Some(<<unwrap(ts.drag_start), unwrap(ts.drag_current)>>)
    ELSE None

start_annotation_drag(ts, click_x, click_y, annotation_x, annotation_y) ==
    [ts EXCEPT !.is_dragging_annotation = TRUE,
               !.drag_start = Some(<<click_x, click_y>>),
               !.drag_current = Some(<<click_x, click_y>>),
               !.pointer_drag_offset =
                   Some(<<click_x - annotation_x, click_y - annotation_y>>)]

update_annotation_drag(ts, x, y) ==
    IF ts.is_dragging_annotation THEN [ts EXCEPT !.drag_current = Some(<<x, y>>)]
    ELSE ts

(* Hit tests.  The margins are max(line_width 3.0, 5.0) around the outline *)
(* of a rectangle, max(line_width 3.0, 8.0) around the points of a free    *)
(* drawing, 5.0 around a text of font_size 24.0 and 0.6 * 24.0 a char.     *)
RectangleMargin == f64(5)

FreeDrawMargin == f64(8)

TextMargin == f64(5)

FontSize == f64(24)

rectangle_hit_test(a, px, py) ==
    LET margin == RectangleMargin
        in_y == py >= a.y - margin /\ py <= a.y + a.height + margin
        in_x == px >= a.x - margin /\ px <= a.x + a.width + margin
    IN  \/ abs(px - a.x) <= margin /\ in_y
        \/ abs(px - (a.x + a.width)) <= margin /\ in_y
        \/ abs(py - a.y) <= margin /\ in_x
        \/ abs(py - (a.y + a.height)) <= margin /\ in_x

(* point_to_segment_distance(p, p1, p2) <= margin, without the square     *)
(* root: the point is projected on the segment, the projection clamped to  *)
(* its ends, and the squares of the lengths are compared.                  *)
within_of_segment(px, py, x1, y1, x2, y2, margin) ==
    LET dx == x2 - x1
        dy == y2 - y1
        length_sq == dx * dx + dy * dy
        dot == (px - x1) * dx + (py - y1) * dy
        from1 == (px - x1) * (px - x1) + (py - y1) * (py - y1)
        from2 == (px - x2) * (px - x2) + (py - y2) * (py - y2)
    IN  IF length_sq = 0 \/ dot <= 0 THEN from1 <= margin * margin
        ELSE IF dot >= length_sq THEN from2 <= margin * margin
        ELSE from1 * length_sq - dot * dot <= margin * margin * length_sq

free_draw_hit_test(a, px, py) ==
    \/ \E i \in DOMAIN a.points :
           LET dx == px - a.points[i][1]
               dy == py - a.points[i][2]
           IN  dx * dx + dy * dy <= FreeDrawMargin * FreeDrawMargin
    \/ \E i \in DOMAIN a.points :
           /\ i + 1 \in DOMAIN a.points
           /\ within_of_segment(px, py, a.points[i][1], a.points[i][2],
                                a.points[i + 1][1], a.points[i + 1][2],
                                FreeDrawMargin)

(* text.len() as f64 * (font_size * 0.6), in halves: 0.6 * 24.0 = 14.4.    *)
text_hit_test(a, px, py) ==
    LET text_width == (Len(a.text) * 144 * 2) \div 10
    IN  /\ px >= a.x - TextMargin
        /\ px <= a.x + text_width + TextMargin
        /\ py >= a.y - FontSize - TextMargin
        /\ py <= a.y + TextMargin

Annotation_hit_test(a, px, py) ==
    IF a.kind = "Rectangle" THEN rectangle_hit_test(a, px, py)
    ELSE IF a.kind = "FreeDraw" THEN free_draw_hit_test(a, px, py)
    ELSE text_hit_test(a, px, py)

move_by(a, dx, dy) ==
    IF a.kind = "FreeDraw"
    THEN [a EXCEPT !.points = [i \in DOMAIN @ |-> <<@[i][1] + dx, @[i][2] + dy>>]]
    ELSE [a EXCEPT !.x = @ + dx, !.y = @ + dy]

position(a) ==
    IF a.kind = "FreeDraw"
    THEN IF a.points # <<>> THEN a.points[1] ELSE <<f64(0), f64(0)>>
    ELSE <<a.x, a.y>>

(* AnnotationList.  selected_index is an Option<usize>, an index from 0.   *)
add(list, annotation) == [list EXCEPT !.annotations = Append(@, annotation)]

set_current(list, annotation) == [list EXCEPT !.current_annotation = annotation]

commit_current(list) ==
    IF is_ok(list.current_annotation)
    THEN [list EXCEPT !.annotations = Append(@, unwrap(list.current_annotation)),
                      !.current_annotation = None]
    ELSE list

undo_keeps_selection(list) ==
    [list EXCEPT !.annotations =
                     IF @ = <<>> THEN @ ELSE SubSeq(@, 1, Len(@) - 1)]

AnnotationList_undo(list) ==
    [list EXCEPT !.selected_index = None,
                 !.annotations =
                     IF @ = <<>> THEN @ ELSE SubSeq(@, 1, Len(@) - 1)]

(* pop().is_some(), the value undo returns.                                *)
undo_returns(list) == list.annotations # <<>>

clear(list) == AnnotationList_new

set_selected(list, index) == [list EXCEPT !.selected_index = index]

deselect(list) == [list EXCEPT !.selected_index = None]

(* The last annotation hit, the one drawn on top.                          *)
AnnotationList_hit_test(list, px, py) ==
    LET hits == {i \in DOMAIN list.annotations :
                     Annotation_hit_test(list.annotations[i], px, py)}
    IN  IF hits = {} THEN None
        ELSE Some((CHOOSE i \in hits : \A j \in hits : j <= i) - 1)

selected_position(list) ==
    IF is_ok(list.selected_index)
       /\ unwrap(list.selected_index) + 1 \in DOMAIN list.annotations
    THEN Some(position(list.annotations[unwrap(list.selected_index) + 1]))
    ELSE None

move_selected(list, dx, dy) ==
    IF is_ok(list.selected_index)
       /\ unwrap(list.selected_index) + 1 \in DOMAIN list.annotations
    THEN [list EXCEPT !.annotations[unwrap(list.selected_index) + 1] =
                          move_by(@, dx, dy)]
    ELSE list

(* EditorState.  Each operation gives the editor after it.                 *)
display_to_image_coords(e, display_x, display_y) ==
    <<((display_x - e.display_offset_x) * 2) \div e.display_scale,
      ((display_y - e.display_offset_y) * 2) \div e.display_scale>>

set_tool(e, tool) ==
    [e EXCEPT !.tool_state = ToolState_set_tool(@, tool), !.pending_text = None]

on_drag_start(e, x, y) ==
    LET img == display_to_image_coords(e, x, y)
        started == [e EXCEPT !.tool_state = start_drag(@, img[1], img[2])]
    IN  IF e.tool_state.active_tool = "Pencil"
        THEN [started EXCEPT !.annotations =
                 set_current(@, Some(add_point(FreeDrawAnnotation_new, img[1], img[2])))]
        ELSE IF e.tool_state.active_tool = "Text"
        THEN [started EXCEPT !.pending_text = Some(img)]
        ELSE started

on_drag_update(e, x, y) ==
    LET img == display_to_image_coords(e, x, y)
        ts == update_drag(e.tool_state, img[1], img[2])
        updated == [e EXCEPT !.tool_state = ts]
        current == e.annotations.current_annotation
    IN  IF ts.active_tool = "Pencil"
        THEN IF is_ok(current) /\ unwrap(current).kind = "FreeDraw"
             THEN [updated EXCEPT !.annotations =
                      set_current(@, Some(add_point(unwrap(current), img[1], img[2])))]
             ELSE updated
        ELSE IF ts.active_tool = "Rectangle"
        THEN IF is_ok(ts.drag_start) /\ is_ok(ts.drag_current)
             THEN [updated EXCEPT !.annotations =
                      set_current(@, Some(RectangleAnnotation_from_corners(
                          unwrap(ts.drag_start)[1], unwrap(ts.drag_start)[2],
                          unwrap(ts.drag_current)[1], unwrap(ts.drag_current)[2])))]
             ELSE updated
        ELSE updated

on_drag_end(e) ==
    [e EXCEPT !.annotations =
                  IF e.tool_state.active_tool \in {"Pencil", "Rectangle"}
                  THEN commit_current(@) ELSE @,
              !.tool_state = reset_drag(@)]

commit_text_selects_len(e, text) ==
    IF is_ok(e.pending_text)
    THEN IF text # <<>>
         THEN LET added == add(e.annotations,
                               TextAnnotation_new(unwrap(e.pending_text)[1],
                                                  unwrap(e.pending_text)[2], text))
              IN  [e EXCEPT !.pending_text = None,
                            !.annotations =
                                set_selected(added, Some(Len(added.annotations)))]
         ELSE [e EXCEPT !.pending_text = None]
    ELSE e

commit_text(e, text) ==
    IF is_ok(e.pending_text)
    THEN IF text # <<>>
         THEN LET added == add(e.annotations,
                               TextAnnotation_new(unwrap(e.pending_text)[1],
                                                  unwrap(e.pending_text)[2], text))
              IN  [e EXCEPT !.pending_text = None,
                            !.annotations =
                                set_selected(added, Some(Len(added.annotations) - 1))]
         ELSE [e EXCEPT !.pending_text = None]
    ELSE e

cancel_text(e) == [e EXCEPT !.pending_text = None]

undo(e) == [e EXCEPT !.annotations = AnnotationList_undo(@)]

clear_annotations(e) == [e EXCEPT !.annotations = clear(@)]

reset(e) ==
    [e EXCEPT !.annotations = clear(@), !.pending_text = None,
              !.tool_state = reset_drag(@)]

(* pointer_drag_start returns true when an annotation was hit and is now   *)
(* dragged.                                                                *)
pointer_drag_start(e, display_x, display_y) ==
    LET img == display_to_image_coords(e, display_x, display_y)
        hit == AnnotationList_hit_test(e.annotations, img[1], img[2])
        selected == set_selected(e.annotations, hit)
        at == selected_position(selected)
    IN  IF is_ok(hit)
        THEN IF is_ok(at)
             THEN [e EXCEPT !.annotations = selected,
                            !.tool_state =
                                start_annotation_drag(@, img[1], img[2],
                                                      unwrap(at)[1], unwrap(at)[2])]
             ELSE [e EXCEPT !.annotations = selected]
        ELSE [e EXCEPT !.annotations = deselect(@)]

pointer_drag_start_returns(e, display_x, display_y) ==
    LET img == display_to_image_coords(e, display_x, display_y)
        hit == AnnotationList_hit_test(e.annotations, img[1], img[2])
    IN  is_ok(hit) /\ is_ok(selected_position(set_selected(e.annotations, hit)))

pointer_drag_update(e, display_x, display_y) ==
    LET img == display_to_image_coords(e, display_x, display_y)
        ts == update_annotation_drag(e.tool_state, img[1], img[2])
        offset == ts.pointer_drag_offset
        old == selected_position(e.annotations)
    IN  IF ~e.tool_state.is_dragging_annotation THEN e
        ELSE IF is_ok(offset) /\ is_ok(old)
        THEN [e EXCEPT !.tool_state = ts,
                       !.annotations =
                           move_selected(@, (img[1] - unwrap(offset)[1]) - unwrap(old)[1],
                                            (img[2] - unwrap(offset)[2]) - unwrap(old)[2])]
        ELSE [e EXCEPT !.tool_state = ts]

pointer_drag_end(e) == [e EXCEPT !.tool_state = reset_drag(@)]

(* AppState.  Selection::new, update_end and is_significant; the crops     *)
(* give the state after them, what they return and the arguments of their  *)
(* call of new_subpixbuf, None when they make none.                        *)
Selection_new(start_x, start_y) ==
    [start_x |-> start_x, start_y |-> start_y, end_x |-> start_x, end_y |-> start_y]

Selection_rectangle(sel) == rectangle(sel.start_x, sel.start_y, sel.end_x, sel.end_y)

is_significant(sel) ==
    Selection_rectangle(sel).width > 10 /\ Selection_rectangle(sel).height > 10

start_selection(s, x, y) == [s EXCEPT !.selection = Some(Selection_new(x, y))]

update_selection(s, end_x, end_y) ==
    IF is_ok(s.selection)
    THEN [s EXCEPT !.selection = Some([unwrap(@) EXCEPT !.end_x = end_x,
                                                        !.end_y = end_y])]
    ELSE s

Cropped(s, returns, subpixbuf) ==
    [state |-> s, returns |-> returns, subpixbuf |-> subpixbuf]

SubpixbufCall(src, x, y, width, height) ==
    [src |-> src, x |-> x, y |-> y, width |-> width, height |-> height]

apply_selection_crop_unclamped(s) ==
    LET crop(orig, rect) ==
            Cropped([s EXCEPT !.final_image =
                         Some(new_subpixbuf(orig, rect.x, rect.y, rect.width, rect.height))],
                    TRUE, Some(SubpixbufCall(orig, rect.x, rect.y, rect.width, rect.height)))
    IN  IF is_ok(s.selection) /\ is_significant(unwrap(s.selection))
           /\ is_ok(s.original_screenshot)
        THEN crop(unwrap(s.original_screenshot), Selection_rectangle(unwrap(s.selection)))
        ELSE Cropped(s, FALSE, None)

apply_selection_crop(s) ==
    LET crop(orig, crop_x, crop_y, crop_w, crop_h) ==
            IF crop_w > 0 /\ crop_h > 0
            THEN Cropped([s EXCEPT !.final_image =
                              Some(new_subpixbuf(orig, crop_x, crop_y, crop_w, crop_h))],
                         TRUE, Some(SubpixbufCall(orig, crop_x, crop_y, crop_w, crop_h)))
            ELSE Cropped(s, FALSE, None)
        clamp(orig, rect, crop_x, crop_y) ==
            crop(orig, crop_x, crop_y, min(rect.width, orig.width - crop_x),
                 min(rect.height, orig.height - crop_y))
        of(orig, rect) == clamp(orig, rect, max(rect.x, 0), max(rect.y, 0))
    IN  IF is_ok(s.selection) /\ is_significant(unwrap(s.selection))
           /\ is_ok(s.original_screenshot)
        THEN of(unwrap(s.original_screenshot), Selection_rectangle(unwrap(s.selection)))
        ELSE Cropped(s, FALSE, None)

(* w > 10.0 && h > 10.0 on the f64 of get_drag_rect; x as i32 and so on.   *)
apply_editor_crop(s) ==
    LET crop(pixbuf, crop_x, crop_y, crop_w, crop_h) ==
            IF crop_w > 0 /\ crop_h > 0
            THEN Cropped([s EXCEPT !.final_image =
                              Some(new_subpixbuf(pixbuf, crop_x, crop_y, crop_w, crop_h)),
                                   !.editor = clear_annotations(@)],
                         TRUE, Some(SubpixbufCall(pixbuf, crop_x, crop_y, crop_w, crop_h)))
            ELSE Cropped(s, FALSE, None)
        clamp(pixbuf, r, crop_x, crop_y) ==
            crop(pixbuf, crop_x, crop_y,
                 min(f64_as_i32(r.width), pixbuf.width - crop_x),
                 min(f64_as_i32(r.height), pixbuf.height - crop_y))
        of(pixbuf, r) ==
            clamp(pixbuf, r, max(f64_as_i32(r.x), 0), max(f64_as_i32(r.y), 0))
        drag == get_drag_rect(s.editor.tool_state.drag_start,
                              s.editor.tool_state.drag_current)
    IN  IF is_ok(drag) /\ unwrap(drag).width > f64(10) /\ unwrap(drag).height > f64(10)
           /\ is_ok(s.final_image)
        THEN of(unwrap(s.final_image), unwrap(drag))
        ELSE Cropped(s, FALSE, None)

exit_capture_mode(s) ==
    [s EXCEPT !.is_active = FALSE, !.selection = None, !.editor = reset(@)]

exit_crop_mode(s) ==
    [s EXCEPT !.is_crop_mode = FALSE, !.editor.tool_state = reset_drag(@)]

increment_delay_unguarded(s) == [s EXCEPT !.delay_seconds = @ + 1]

increment_delay(s) ==
    IF s.delay_seconds < 10 THEN [s EXCEPT !.delay_seconds = @ + 1] ELSE s

decrement_delay(s) ==
    IF s.delay_seconds > 0 THEN [s EXCEPT !.delay_seconds = @ - 1] ELSE s

(* The widgets as the window is built, and no handler run yet.             *)
UiComponents_new ==
    [header_bar |-> TRUE, tools_box |-> TRUE, crop_tools_box |-> FALSE,
     selection_tools_box |-> FALSE, mode_btn |-> "Selection",
     tool_btn |-> "Pointer", window_selector |-> FALSE,
     gesture |-> None, panicked |-> FALSE]

NoEvent == [call |-> "-", returned |-> "-"]

(* ui/handlers.rs: the drag gesture on the drawing area.  Each handler     *)
(* gives the AppState after it.                                            *)
handle_drag_begin(s, start_x, start_y) ==
    LET drawn(e, tool, img_x, img_y) ==
            IF tool = "Pencil"
            THEN [e EXCEPT !.tool_state = start_drag(@, img_x, img_y),
                           !.annotations =
                               set_current(@, Some(add_point(FreeDrawAnnotation_new,
                                                             img_x, img_y)))]
            ELSE IF tool = "Rectangle"
            THEN [e EXCEPT !.tool_state = start_drag(@, img_x, img_y)]
            ELSE IF tool = "Crop"
            THEN [e EXCEPT !.tool_state = start_drag(reset_drag(@), img_x, img_y)]
            ELSE e
        with(e, img) == drawn(e, e.tool_state.active_tool, img[1], img[2])
        started(e) == with(e, display_to_image_coords(e, start_x, start_y))
    IN  IF s.is_active /\ s.mode = "Selection"
        THEN start_selection(s, start_x, start_y)
        ELSE IF is_ok(s.final_image)
        THEN IF pointer_drag_start_returns(s.editor, start_x, start_y)
             THEN [s EXCEPT !.editor = pointer_drag_start(@, start_x, start_y)]
             ELSE [s EXCEPT !.editor = started(pointer_drag_start(@, start_x, start_y))]
        ELSE s

(* gesture.start_point() is start_point; None returns at once.             *)
handle_drag_update(s, start_point, offset_x, offset_y) ==
    LET drawn(e, img_x, img_y) ==
            IF e.tool_state.is_dragging_annotation
            THEN pointer_drag_update(e, unwrap(start_point)[1] + offset_x,
                                     unwrap(start_point)[2] + offset_y)
            ELSE IF e.tool_state.is_drawing
            THEN IF e.tool_state.active_tool = "Pencil"
                    /\ is_ok(e.annotations.current_annotation)
                    /\ unwrap(e.annotations.current_annotation).kind = "FreeDraw"
                 THEN [e EXCEPT !.tool_state = update_drag(@, img_x, img_y),
                                !.annotations =
                                    set_current(@, Some(add_point(
                                        unwrap(@.current_annotation), img_x, img_y)))]
                 ELSE [e EXCEPT !.tool_state = update_drag(@, img_x, img_y)]
            ELSE e
        with(e, img) == drawn(e, img[1], img[2])
        at(current_x, current_y) ==
            IF s.is_active /\ s.mode = "Selection"
            THEN update_selection(s, current_x, current_y)
            ELSE IF is_ok(s.final_image)
            THEN [s EXCEPT !.editor =
                      with(@, display_to_image_coords(@, current_x, current_y))]
            ELSE s
    IN  IF ~is_ok(start_point) THEN s
        ELSE at(unwrap(start_point)[1] + offset_x, unwrap(start_point)[2] + offset_y)

handle_drag_end(s, start_point, offset_x, offset_y) ==
    LET committed(list, drag_result) ==
            IF is_ok(drag_result)
            THEN add(list, RectangleAnnotation_new(
                               unwrap(drag_result)[1][1], unwrap(drag_result)[1][2],
                               abs(unwrap(drag_result)[2][1] - unwrap(drag_result)[1][1]),
                               abs(unwrap(drag_result)[2][2] - unwrap(drag_result)[1][2])))
            ELSE list
        ended(e) ==
            IF e.tool_state.is_dragging_annotation THEN pointer_drag_end(e)
            ELSE IF e.tool_state.is_drawing
            THEN IF e.tool_state.active_tool = "Pencil"
                 THEN [e EXCEPT !.tool_state = reset_drag(@),
                                !.annotations = commit_current(@)]
                 ELSE IF e.tool_state.active_tool = "Rectangle"
                 THEN [e EXCEPT !.tool_state = reset_drag(@),
                                !.annotations =
                                    committed(@, end_drag_result(e.tool_state))]
                 ELSE IF e.tool_state.active_tool = "Crop"
                 THEN [e EXCEPT !.tool_state.is_drawing = FALSE]
                 ELSE e
            ELSE e
    IN  IF ~is_ok(start_point) THEN s
        ELSE IF s.is_active /\ s.mode = "Selection"
        THEN update_selection(s, unwrap(start_point)[1] + offset_x,
                              unwrap(start_point)[2] + offset_y)
        ELSE IF is_ok(s.final_image) THEN [s EXCEPT !.editor = ended(@)]
        ELSE s

(* The inputs: environments, windows, tool outputs.                        *)

EnvVars ==
    {"XDG_SESSION_TYPE", "WAYLAND_DISPLAY", "DISPLAY",
     "HYPRLAND_INSTANCE_SIGNATURE", "SWAYSOCK", "XDG_CURRENT_DESKTOP",
     "DESKTOP_SESSION", "KDE_FULL_SESSION", "GNOME_DESKTOP_SESSION_ID"}

v_empty == <<>>
v_1 == <<"1">>
v_wayland == <<"w","a","y","l","a","n","d">>
v_Wayland == <<"W","a","y","l","a","n","d">>
v_x11 == <<"x","1","1">>
v_X11 == <<"X","1","1">>
v_tty == <<"t","t","y">>
v_wayland_sp == <<"w","a","y","l","a","n","d"," ">>
v_GNOME == <<"G","N","O","M","E">>
v_ubuntu_GNOME == <<"u","b","u","n","t","u",":","G","N","O","M","E">>
v_KDE == <<"K","D","E">>
v_Budgie_sp_Gnome == <<"B","u","d","g","i","e",":"," ","G","n","o","m","e"," ">>
v_LXQt == <<"L","X","Q","t">>
v_Hyprland == <<"H","y","p","r","l","a","n","d">>
v_XFCE == <<"X","F","C","E">>
v_gnomeish_mate2 == <<"g","n","o","m","e","i","s","h",":","m","a","t","e","2">>
v_Unity_KDE == <<"U","n","i","t","y",":","K","D","E">>
v_LXQt_Sway == <<"L","X","Q","t",":","S","w","a","y">>
v_plasmawayland == <<"p","l","a","s","m","a","w","a","y","l","a","n","d">>
v_openbox == <<"o","p","e","n","b","o","x">>
v_kde_mate == <<"k","d","e","-","m","a","t","e">>

v_GNOME_xfce == <<"G","N","O","M","E","-","x","f","c","e">>

Flag == {None, Some(v_1)}

(* The environments of the detection specification.                        *)
DetectEnvValues ==
    [v \in EnvVars |->
        CASE v = "XDG_SESSION_TYPE" ->
                {None, Some(v_wayland), Some(v_Wayland), Some(v_X11), Some(v_tty),
                 Some(v_wayland_sp)}
          [] v = "XDG_CURRENT_DESKTOP" ->
                {None, Some(v_empty), Some(v_ubuntu_GNOME), Some(v_Budgie_sp_Gnome),
                 Some(v_LXQt), Some(v_gnomeish_mate2), Some(v_Unity_KDE),
                 Some(v_LXQt_Sway)}
          [] v = "DESKTOP_SESSION" ->
                {None, Some(v_plasmawayland), Some(v_openbox), Some(v_kde_mate),
                 Some(v_GNOME_xfce)}
          [] OTHER -> Flag]

(* The environments of the capture specification: every pair of display    *)
(* server and desktop environment is detected from one of them.            *)
SessionEnvValues ==
    [v \in EnvVars |->
        CASE v = "XDG_SESSION_TYPE" -> {None, Some(v_wayland), Some(v_x11)}
          [] v = "XDG_CURRENT_DESKTOP" ->
                {None, Some(v_GNOME), Some(v_KDE), Some(v_Hyprland),
                 Some(v_LXQt_Sway), Some(v_XFCE)}
          [] OTHER -> {None}]

(* The environments of the specification that remembers the call before.  *)
NestedEnvValues ==
    [v \in EnvVars |->
        CASE v = "XDG_SESSION_TYPE" -> {None, Some(v_x11)}
          [] v = "WAYLAND_DISPLAY" -> {None, Some(v_1)}
          [] v = "XDG_CURRENT_DESKTOP" -> {None, Some(v_XFCE)}
          [] OTHER -> {None}]

(* The sessions a caller can construct.                                    *)
Sessions ==
    {DesktopSession(ds, de) :
        ds \in DisplayServer,
        de \in {DE(t) : t \in NamedEnvironments} \cup {Other(None), Other(Some(v_LXQt))}}

s_a == <<"a">>
s_f == <<"f">>

WindowInfo(id, title, x, y, width, height, is_minimized) ==
    [id |-> id, pid |-> 100, app_name |-> s_f, title |-> title,
     x |-> x, y |-> y, z |-> 0, width |-> width, height |-> height,
     is_minimized |-> is_minimized, is_maximized |-> FALSE, is_focused |-> FALSE]

w_normal == WindowInfo(1, s_a, 1, 1, 4, 3, FALSE)
w_minimized == WindowInfo(1, s_a, 1, 1, 4, 3, TRUE)
w_empty == WindowInfo(2, s_a, 2, 2, 0, 0, FALSE)

WindowInfos == {w_normal, w_minimized, w_empty}

(* A live xcap window: the fields of a WindowInfo and how capture_image    *)
(* ends.                                                                   *)
Live(w, image) ==
    [id |-> w.id, title |-> w.title, app_name |-> w.app_name,
     x |-> w.x, y |-> w.y, width |-> w.width, height |-> w.height,
     is_minimized |-> w.is_minimized, image |-> image]

XcapWorlds ==
    {None, Some(<<>>), Some(<<Live(w_normal, "ok")>>),
     Some(<<Live(w_minimized, "ok")>>), Some(<<Live(w_normal, "err")>>),
     Some(<<Live(w_empty, "ok"), Live(w_normal, "ok")>>)}

(* Requests and enumerations for the generic capture on its own: ids 1    *)
(* and 2, titles a and b, x 1 and 2, the rest as w_normal; a window whose  *)
(* capture_image() fails.                                                  *)
s_b == <<"b">>

Requested == {WindowInfo(id, title, 1, 1, 4, 3, FALSE) : id \in {1, 2}, title \in {s_a, s_b}}

LiveWindows ==
    {Live(WindowInfo(id, title, x, 1, 4, 3, is_minimized), "ok") :
        id \in {1, 2}, title \in {s_a, s_b}, x \in {1, 2}, is_minimized \in BOOLEAN}
    \cup {Live(WindowInfo(id, s_a, 1, 1, 4, 3, FALSE), "err") : id \in {1, 2}}

MaxLive == 2

Enumerations == UNION {[1..n -> LiveWindows] : n \in 0..MaxLive}

Monitor(is_primary, grab) == [is_primary |-> is_primary, grab |-> grab]

MonitorWorlds ==
    {None, Some(<<>>), Some(<<Monitor(FALSE, "ok")>>),
     Some(<<Monitor(FALSE, "capture_err"), Monitor(TRUE, "ok")>>),
     Some(<<Monitor(TRUE, "info_err")>>), Some(<<Monitor(TRUE, "capture_err")>>)}

(* The size of the full-screen pixbuf.                                     *)
FullScreen == <<8, 6>>

(* Tool output for the parsers.                                            *)

(* hyprctl clients: the documented sample; string values with braces, a    *)
(* bracket, an escaped quote and a backslash; no address; every field      *)
(* malformed; a 64-bit address; string values with a two-byte char; every  *)
(* field present, two with a two-byte char; a stray char after a string    *)
(* value; a text cut off inside a string.  swaymsg nodes: a window, one without id, *)
(* one without rect.                                                       *)

o_sample ==
    <<"{", "\"", "a", "d", "d", "r", "e", "s", "s", "\"", ":", "\"",
      "0", "x", "1", "2", "3", "4", "5", "6", "7", "8", "\"", ",",
      "\"", "p", "i", "d", "\"", ":", "1", "2", "3", "4", ",", "\"",
      "c", "l", "a", "s", "s", "\"", ":", "\"", "f", "i", "r", "e",
      "f", "o", "x", "\"", ",", "\"", "t", "i", "t", "l", "e", "\"",
      ":", "\"", "M", "o", "z", "i", "l", "l", "a", " ", "F", "i", "r",
      "e", "f", "o", "x", "\"", ",", "\"", "a", "t", "\"", ":", "[",
      "1", "0", "0", ",", "2", "0", "0", "]", ",", "\"", "s", "i", "z",
      "e", "\"", ":", "[", "8", "0", "0", ",", "6", "0", "0", "]", ",",
      "\"", "h", "i", "d", "d", "e", "n", "\"", ":", "f", "a", "l",
      "s", "e", ",", "\"", "f", "u", "l", "l", "s", "c", "r", "e", "e",
      "n", "\"", ":", "f", "a", "l", "s", "e", ",", "\"", "f", "o",
      "c", "u", "s", "H", "i", "s", "t", "o", "r", "y", "I", "D", "\"",
      ":", "0", "}">>

o_braces ==
    <<"{", "\"", "a", "d", "d", "r", "e", "s", "s", "\"", ":", "\"",
      "0", "x", "1", "f", "\"", ",", "\"", "t", "i", "t", "l", "e",
      "\"", ":", "\"", "a", "{", "b", "}", "]", "\\", "\"", "c", "\\",
      "\\", "\"", ",", "\"", "h", "i", "d", "d", "e", "n", "\"", ":",
      "t", "r", "u", "e", ",", "\"", "f", "o", "c", "u", "s", "H", "i",
      "s", "t", "o", "r", "y", "I", "D", "\"", ":", "1", "}">>

o_no_address ==
    <<"{", "\"", "p", "i", "d", "\"", ":", "7", ",", "\"", "t", "i",
      "t", "l", "e", "\"", ":", "\"", "t", "\"", ",", "\"", "s", "i",
      "z", "e", "\"", ":", "[", "3", ",", "2", "]", "}">>

o_malformed ==
    <<"{", "\"", "a", "d", "d", "r", "e", "s", "s", "\"", ":", "\"",
      "z", "z", "\"", ",", "\"", "p", "i", "d", "\"", ":", "-", "1",
      ",", "\"", "t", "i", "t", "l", "e", "\"", ":", "5", ",", "\"",
      "a", "t", "\"", ":", "[", "1", "]", ",", "\"", "s", "i", "z",
      "e", "\"", ":", "[", "0", ",", "\"", "x", "\"", "]", ",", "\"",
      "h", "i", "d", "d", "e", "n", "\"", ":", "1", ",", "\"", "f",
      "o", "c", "u", "s", "H", "i", "s", "t", "o", "r", "y", "I", "D",
      "\"", ":", "\"", "a", "\"", "}">>

o_wide_address ==
    <<"{", "\"", "a", "d", "d", "r", "e", "s", "s", "\"", ":", "\"",
      "0", "x", "5", "5", "d", "3", "c", "8", "a", "0", "b", "2", "f",
      "0", "\"", ",", "\"", "t", "i", "t", "l", "e", "\"", ":", "\"",
      "t", "\"", ",", "\"", "s", "i", "z", "e", "\"", ":", "[", "3",
      ",", " ", "2", "]", "}">>

(* The window next to it in the listing: another 64-bit address.           *)
o_wide_neighbour ==
    <<"{", "\"", "a", "d", "d", "r", "e", "s", "s", "\"", ":", "\"",
      "0", "x", "5", "5", "d", "3", "c", "8", "a", "0", "c", "4", "1",
      "0", "\"", ",", "\"", "t", "i", "t", "l", "e", "\"", ":", "\"",
      "u", "\"", "}">>

o_accent ==
    <<"{", "\"", "a", "d", "d", "r", "e", "s", "s", "\"", ":", "\"",
      "0", "x", "2", "\"", ",", "\"", "t", "i", "t", "l", "e", "\"",
      ":", "\"", "é", "\"", "}">>

o_accent_first ==
    <<"{", "\"", "a", "d", "d", "r", "e", "s", "s", "\"", ":", "\"",
      "0", "x", "3", "\"", ",", "\"", "c", "l", "a", "s", "s", "\"",
      ":", "\"", "é", "a", "\"", ",", "\"", "s", "i", "z", "e", "\"",
      ":", "[", "5", ",", "5", "]", "}">>

o_cafe ==
    <<"{", "\"", "a", "d", "d", "r", "e", "s", "s", "\"", ":", "\"",
      "0", "x", "a", "\"", ",", "\"", "p", "i", "d", "\"", ":", "9",
      ",", "\"", "c", "l", "a", "s", "s", "\"", ":", "\"", "c", "a",
      "f", "é", "\"", ",", "\"", "t", "i", "t", "l", "e", "\"", ":",
      "\"", "é", "\"", ",", "\"", "a", "t", "\"", ":", "[", "1", ",",
      "2", "]", ",", "\"", "s", "i", "z", "e", "\"", ":", "[", "3",
      ",", "4", "]", ",", "\"", "h", "i", "d", "d", "e", "n", "\"",
      ":", "t", "r", "u", "e", ",", "\"", "f", "u", "l", "l", "s", "c",
      "r", "e", "e", "n", "\"", ":", "t", "r", "u", "e", ",", "\"",
      "f", "o", "c", "u", "s", "H", "i", "s", "t", "o", "r", "y", "I",
      "D", "\"", ":", "2", "}">>

o_stray ==
    <<"{", "\"", "a", "d", "d", "r", "e", "s", "s", "\"", ":", "\"",
      "0", "x", "5", "\"", ",", "\"", "c", "l", "a", "s", "s", "\"",
      ":", "\"", "é", "\"", "a", "\"", "}">>

o_truncated ==
    <<"{", "\"", "a", "d", "d", "r", "e", "s", "s", "\"", ":", "\"",
      "0", "x", "4", "\"", ",", "\"", "t", "i", "t", "l", "e", "\"",
      ":", "\"", "a", "b">>

n_window ==
    <<"{", "\"", "i", "d", "\"", ":", "5", ",", "\"", "n", "a", "m",
      "e", "\"", ":", "\"", "t", "e", "r", "m", "\"", ",", "\"", "r",
      "e", "c", "t", "\"", ":", "{", "\"", "x", "\"", ":", "1", "0",
      ",", "\"", "y", "\"", ":", "2", "0", ",", "\"", "w", "i", "d",
      "t", "h", "\"", ":", "8", "0", "0", ",", "\"", "h", "e", "i",
      "g", "h", "t", "\"", ":", "6", "0", "0", "}", ",", "\"", "f",
      "o", "c", "u", "s", "e", "d", "\"", ":", "t", "r", "u", "e", ",",
      "\"", "p", "i", "d", "\"", ":", "7", "7", ",", "\"", "a", "p",
      "p", "_", "i", "d", "\"", ":", "\"", "f", "o", "o", "t", "\"", "}">>

n_no_id ==
    <<"{", "\"", "n", "a", "m", "e", "\"", ":", "\"", "t", "e", "r",
      "m", "\"", ",", "\"", "r", "e", "c", "t", "\"", ":", "{", "\"",
      "x", "\"", ":", "1", ",", "\"", "y", "\"", ":", "2", ",", "\"",
      "w", "i", "d", "t", "h", "\"", ":", "3", ",", "\"", "h", "e",
      "i", "g", "h", "t", "\"", ":", "4", "}", ",", "\"", "p", "i",
      "d", "\"", ":", "7", "8", ",", "\"", "a", "p", "p", "_", "i",
      "d", "\"", ":", "\"", "f", "o", "o", "t", "\"", "}">>

n_no_rect ==
    <<"{", "\"", "i", "d", "\"", ":", "6", ",", "\"", "p", "i", "d",
      "\"", ":", "7", "9", ",", "\"", "w", "i", "n", "d", "o", "w",
      "_", "p", "r", "o", "p", "e", "r", "t", "i", "e", "s", "\"", ":",
      "{", "\"", "c", "l", "a", "s", "s", "\"", ":", "\"", "x", "t",
      "e", "r", "m", "\"", "}", "}">>


(* A window whose name holds a closing brace.                              *)
n_brace ==
    <<"{", "\"", "i", "d", "\"", ":", "8", ",", "\"", "n", "a", "m",
      "e", "\"", ":", "\"", "a", "}", "b", "\"", ",", "\"", "f", "o",
      "c", "u", "s", "e", "d", "\"", ":", "f", "a", "l", "s", "e", ",",
      "\"", "p", "i", "d", "\"", ":", "8", "0", ",", "\"", "a", "p",
      "p", "_", "i", "d", "\"", ":", "\"", "f", "o", "o", "t", "\"", "}">>

(* A container: no pid of its own, one window node inside.                *)
n_container ==
    <<"{", "\"", "i", "d", "\"", ":", "3", ",", "\"", "n", "a", "m",
      "e", "\"", ":", "\"", "w", "s", "\"", ",", "\"", "t", "y", "p",
      "e", "\"", ":", "\"", "w", "o", "r", "k", "s", "p", "a", "c",
      "e", "\"", ",", "\"", "n", "o", "d", "e", "s", "\"", ":", "[">>
        \o n_window \o <<"]", "}">>

ClientObjects ==
    {o_sample, o_braces, o_no_address, o_malformed, o_wide_address,
     o_wide_neighbour, o_accent, o_accent_first, o_cafe}

(* The JSON array of the objects objs, as hyprctl -j prints it.            *)
RECURSIVE comma_separated(_)
comma_separated(objs) ==
    IF objs = <<>> THEN <<>>
    ELSE IF Len(objs) = 1 THEN Head(objs)
    ELSE Head(objs) \o <<",">> \o comma_separated(Tail(objs))

json_array(objs) == <<"[">> \o comma_separated(objs) \o <<"]", "\n">>

MaxClients == 2

ClientLists ==
    UNION {[1..n -> ClientObjects] : n \in 0..MaxClients}

(* The swaymsg tree around the window nodes ns.                            *)
sway_tree(ns) ==
    <<"{", "\"", "i", "d", "\"", ":", "1", ",", "\"", "n", "o", "d", "e", "s", "\"", ":", "[">>
        \o comma_separated(ns) \o <<"]", "}">>

SwayNodes == {n_window, n_no_id, n_no_rect, n_brace, n_container}

SwayNodeLists == UNION {[1..n -> SwayNodes] : n \in 0..MaxClients}

(* The text gdbus prints for GetWindows: a dictionary of window records,   *)
(* each a dictionary of fields.  A record is given by its values and the   *)
(* order of its fields: the wm-class first, last, or alone.                *)
gvariant_string(name, value) == name \o <<" ", "<", "'">> \o value \o <<"'", ">">>

gvariant_number(name, n) == name \o <<" ", ToString(n), " ">>

gvariant_window(record) ==
    LET class == gvariant_string(s_wm_class, record.app_name)
        others ==
            gvariant_string(<<"'","t","i","t","l","e","'",":">>, record.title)
                \o <<",", " ">> \o gvariant_number(<<"'","p","i","d","'",":">>, record.pid)
                \o <<",", " ">> \o gvariant_number(<<"'","w","i","d","t","h","'",":">>, record.width)
                \o <<",", " ">> \o gvariant_number(<<"'","h","e","i","g","h","t","'",":">>, record.height)
    IN  <<"{">>
            \o (CASE record.order = "class_first" -> class \o <<",", " ">> \o others
                  [] record.order = "class_last" -> others \o <<",", " ">> \o class
                  [] OTHER -> class)
            \o <<"}">>

RECURSIVE gvariant_windows(_)
gvariant_windows(records) ==
    IF records = <<>> THEN <<>>
    ELSE <<"u","i","n","t","6","4"," ">> \o <<ToString(Len(records)), ":", " ">>
            \o gvariant_window(Head(records))
            \o (IF Len(records) > 1 THEN <<",", " ">> ELSE <<>>)
            \o gvariant_windows(Tail(records))

gvariant_dump(records) ==
    <<"(", "{">> \o gvariant_windows(records) \o <<"}", ",", ")", "\n">>

GnomeRecords ==
    {[app_name |-> v[1], title |-> v[2], pid |-> v[3], width |-> v[4],
      height |-> v[5], order |-> order] :
        v \in {<<<<"f">>, <<"a">>, 7, 4, 3>>, <<<<"t">>, <<"b">>, 9, 5, 2>>},
        order \in {"class_first", "class_last", "class_only"}}

GnomeRecordLists == UNION {[1..n -> GnomeRecords] : n \in 0..MaxClients}

out_empty == <<>>
out_array == <<"[", "]">>
out_array_sp == <<" ", "[", "{", "}", "]", "\n">>
out_error == <<"e", "r", "r">>
out_tree == <<"{", "}">>
out_no_windows == <<"(", ")">>
out_one_window ==
    <<"(", "{">> \o s_wm_class \o <<"<", "'", "a", "'", ">", "}", ",", ")">>
out_ids == <<"1", "2", "\n", " ", "7", " ", "\n">>
out_text == <<"a", "b", "c", "\n">>
out_big_id == <<"4", "2", "9", "4", "9", "6", "7", "2", "9", "6", "\n">>
out_clients == json_array(<<o_sample, o_braces>>)
out_nodes == sway_tree(<<n_window, n_no_rect>>)

(* What a listing Command can print when it succeeds.                      *)
Stdouts(cmd) ==
    CASE cmd = "hyprctl" ->
            {out_empty, out_array, out_array_sp, out_error, out_clients}
      [] cmd = "swaymsg" -> {out_empty, out_tree, out_error, out_nodes}
      [] cmd = "gdbus" -> {out_no_windows, out_one_window}
      [] cmd = "kdotool" -> {out_empty, out_ids, out_text, out_big_id}
      [] OTHER -> {out_empty}

OutcomesOf(cmd) ==
    IF cmd = "spectacle -r" THEN CommandOutcomes ELSE CaptureOutcomes

(* The functions giving each Command of cmds one of its outcomes.          *)
CaptureOutcomeChoices(cmds) ==
    {o \in [cmds -> CaptureOutcomes] : \A c \in cmds : o[c] \in OutcomesOf(c)}

StdoutChoices(cmds) ==
    {s \in [cmds -> UNION {Stdouts(c) : c \in cmds}] : \A c \in cmds : s[c] \in Stdouts(c)}

TitleChoices(backend, stdout) ==
    IF backend = "KdeWayland"
    THEN [1..Len(kdotool_ids(lines(stdout["kdotool"]))) -> CommandOutcomes]
    ELSE {<<>>}

(* The object strings and keys the extractors are tried on.                *)
FieldTexts == ClientObjects \cup {o_stray, o_truncated, <<>>}

FieldKeys ==
    {<<"a", "d", "d", "r", "e", "s", "s">>, <<"t", "i", "t", "l", "e">>,
     <<"c", "l", "a", "s", "s">>, <<"p", "i", "d">>, <<"a", "t">>,
     <<"s", "i", "z", "e">>, <<"h", "i", "d", "d", "e", "n">>,
     <<"f", "o", "c", "u", "s", "H", "i", "s", "t", "o", "r", "y", "I", "D">>}

Extractors ==
    {"extract_json_string", "extract_json_number", "extract_json_bool",
     "extract_json_bool_field", "extract_json_position", "extract_json_size"}

extract(extractor, json, key) ==
    CASE extractor = "extract_json_string" -> extract_json_string(json, key)
      [] extractor = "extract_json_number" -> extract_json_number(json, key)
      [] extractor = "extract_json_bool" -> extract_json_bool(json, key)
      [] extractor = "extract_json_bool_field" -> extract_json_bool_field(json, key)
      [] extractor = "extract_json_position" -> extract_json_position(json, key)
      [] extractor = "extract_json_size" -> extract_json_size(json, key)

-----------------------------------------------------------------------------
(* The state: the process environment, and the call in progress: its       *)
(* arguments, what it invoked and what it returned.  The application is    *)
(* single-threaded (GTK main loop): a call runs to completion and its      *)
(* caller takes the result before anything else happens.                   *)

NoSession == DesktopSession("-", DE("-"))

NoResult == [ok |-> FALSE, err |-> "-", by |-> "-", val |-> <<>>]

(* No call in progress.  input and output hold the arguments and the value *)
(* of a parser called on its own.                                          *)
Idle ==
    [op |-> "none", session |-> NoSession, backend |-> "-", win |-> None,
     calls |-> <<>>, result |-> NoResult, reads |-> <<>>, spawned |-> <<>>,
     listed |-> NoResult, input |-> <<>>, output |-> <<>>,
     file |-> None, wrote |-> {}]

Unset == [v \in EnvVars |-> None]

(* The call made before this one, where a specification keeps it: the     *)
(* environment it ran in, the probe it spawned and the session it used.    *)
NoCall == [op |-> "none", env |-> Unset, spawned |-> <<>>, session |-> NoSession]

(* Captures in flight at the same time.  A capture runs in the process pid *)
(* (two captures of one pid are two threads of it) and goes through its    *)
(* function step by step: the Command writes temp_path, the caller loads   *)
(* it, removes it and returns.  tmp is the directory /tmp: for each temp   *)
(* path, None or the capture whose Command wrote the file there.           *)
InFlight == {1, 2}

Pids == {100, 200}

(* format!("/tmp/screenshot_gnome_{}.png", std::process::id()) in the      *)
(* window backends, "/tmp/screenshot_gnome_screen_{}.png" in screen.rs.    *)
temp_path(kind, pid) ==
    <<IF kind = "window" THEN "/tmp/screenshot_gnome_"
      ELSE "/tmp/screenshot_gnome_screen_", pid, ".png">>

TempPaths == {temp_path(kind, pid) : kind \in {"window", "screen"}, pid \in Pids}

NotStarted ==
    [pc |-> "none", kind |-> "-", pid |-> 0, loaded |-> None, touched |-> FALSE]

(* The file at path is there and was written for another capture than i.   *)
of_another(i, path) == is_ok(tmp[path]) /\ unwrap(tmp[path]) # i

Init ==
    /\ env = Unset
    /\ last = Idle
    /\ before = NoCall
    /\ tmp = [path \in TempPaths |-> None]
    /\ flights = [i \in InFlight |-> NotStarted]
    /\ state = AppState_new
    /\ ui = UiComponents_new
    /\ event = NoEvent

(* The environment the process is started in differs from run to run, and  *)
(* can change while it runs (a nested session).                            *)
SetEnv(values) ==
    /\ last = Idle
    /\ \E v \in EnvVars :
           \E x \in values[v] :
               env' = [env EXCEPT ![v] = x]
    /\ UNCHANGED <<last, before, tmp, flights, state, ui, event>>

SetSessionEnv == SetEnv(SessionEnvValues)

SetDetectEnv == SetEnv(DetectEnvValues)

SetNestedEnv == SetEnv(NestedEnvValues)

(* The caller has taken the result.                                        *)
Return ==
    /\ last # Idle
    /\ last' = Idle
    /\ UNCHANGED <<env, before, tmp, flights, state, ui, event>>

(* The same, the call remembered as the one before the next.               *)
ReturnRemembered ==
    /\ last # Idle
    /\ last' = Idle
    /\ before' = [op |-> last.op, env |-> env, spawned |-> last.spawned,
                  session |-> last.session]
    /\ UNCHANGED <<env, tmp, flights, state, ui, event>>

(* DesktopSession::detect().                                               *)
Detect ==
    /\ last = Idle
    /\ \E probe \in ProbeOutcomes :
           LET d == detect(env, probe)
           IN  last' = [Idle EXCEPT !.op = "detect", !.session = d.session,
                                    !.reads = d.reads, !.spawned = d.spawned]
    /\ UNCHANGED <<env, before, tmp, flights, state, ui, event>>

(* session.window_list_backend() on a session the caller built.            *)
WindowListBackendCall ==
    /\ last = Idle
    /\ \E session \in Sessions :
           last' = [Idle EXCEPT !.op = "window_list_backend", !.session = session,
                                !.backend = window_list_backend(session)]
    /\ UNCHANGED <<env, before, tmp, flights, state, ui, event>>

(* The record of a listing call: r is what it returned, listed what        *)
(* list_windows_for_session returned to it, input what the tools printed.  *)
Listed(op, d, backend, stdout, r, listed) ==
    [Idle EXCEPT !.op = op, !.session = d.session, !.backend = backend,
                 !.calls = r.calls, !.result = r.result,
                 !.listed = listed.result, !.input = stdout,
                 !.reads = d.reads, !.spawned = d.spawned]

(* window::list_all_windows(): detect, then list_windows_for_session.      *)
ListAllWindows ==
    /\ last = Idle
    /\ \E probe \in ProbeOutcomes, world \in XcapWorlds :
         LET listing(d, backend) ==
                 \E o \in [ListCommands(backend) -> CommandOutcomes],
                    stdout \in StdoutChoices(ListCommands(backend)) :
                     \E titles \in TitleChoices(backend, stdout) :
                         last' = Listed("list_all_windows", d, backend, stdout,
                                        list_all_windows(d.session, o, stdout,
                                                         titles, world),
                                        list_windows_for_session(d.session, o, stdout,
                                                                 titles, world))
             detected(d) == listing(d, window_list_backend(d.session))
         IN  detected(detect(env, probe))
    /\ UNCHANGED <<env, before, tmp, flights, state, ui, event>>

(* window::list_capturable_windows(): detect, list_windows_for_session,    *)
(* then the filter.                                                        *)
ListCapturableWindows ==
    /\ last = Idle
    /\ \E probe \in ProbeOutcomes, world \in XcapWorlds :
         LET listing(d, backend) ==
                 \E o \in [ListCommands(backend) -> CommandOutcomes],
                    stdout \in StdoutChoices(ListCommands(backend)) :
                     \E titles \in TitleChoices(backend, stdout) :
                         last' = Listed("list_capturable_windows", d, backend, stdout,
                                        list_capturable_windows(d.session, o, stdout,
                                                                titles, world),
                                        list_windows_for_session(d.session, o, stdout,
                                                                 titles, world))
             detected(d) == listing(d, window_list_backend(d.session))
         IN  detected(detect(env, probe))
    /\ UNCHANGED <<env, before, tmp, flights, state, ui, event>>

(* window::capture_window(window_info): detect, then                       *)
(* capture_window_for_session.                                             *)
CaptureWindow ==
    /\ last = Idle
    /\ \E probe \in ProbeOutcomes, world \in XcapWorlds, w \in WindowInfos :
         LET d == detect(env, probe)
             backend == window_list_backend(d.session)
         IN  \E o \in CaptureOutcomeChoices(CaptureCommands(backend)) :
                 LET r == capture_window_for_session(d.session, w, o, FullScreen, world)
                     captured(wrote, at) ==
                         /\ at.possible
                         /\ last' = [Idle EXCEPT !.op = "capture_window",
                                         !.session = d.session, !.backend = backend,
                                         !.win = Some(w),
                                         !.calls = r.calls, !.result = r.result,
                                         !.reads = d.reads, !.spawned = d.spawned,
                                         !.file = at.file, !.wrote = wrote]
                 IN  \E wrote \in SUBSET Writers(r.calls) :
                         captured(wrote, window_temp_file(r.calls, wrote))
    /\ UNCHANGED <<env, before, tmp, flights, state, ui, event>>

(* screen::capture_primary_monitor().                                      *)
CapturePrimaryMonitor ==
    /\ last = Idle
    /\ \E probe \in ProbeOutcomes, monitors \in MonitorWorlds :
         LET d == detect(env, probe)
         IN  \E o \in [ScreenCommands(d.session) -> CaptureOutcomes] :
                 LET r == capture_for_display_server(d.session, o, monitors)
                     captured(wrote, at) ==
                         /\ at.possible
                         /\ last' = [Idle EXCEPT !.op = "capture_primary_monitor",
                                         !.session = d.session,
                                         !.calls = r.calls, !.result = r.result,
                                         !.reads = d.reads, !.spawned = d.spawned,
                                         !.file = at.file, !.wrote = wrote]
                 IN  \E wrote \in SUBSET Writers(r.calls) :
                         captured(wrote, screen_temp_file(d.session, o, wrote))
    /\ UNCHANGED <<env, before, tmp, flights, state, ui, event>>

(* parse_hyprland_json on the array of the clients objs; output is the     *)
(* obj_str values it takes.                                                *)
ParseHyprlandJson ==
    /\ last = Idle
    /\ \E objs \in ClientLists :
           LET parsed(json_str) ==
                   [Idle EXCEPT !.op = "parse_hyprland_json",
                                !.input = <<objs, json_str>>,
                                !.output = hyprland_objects(json_str),
                                !.result = parse_hyprland_json(json_str)]
           IN  last' = parsed(json_array(objs))
    /\ UNCHANGED <<env, before, tmp, flights, state, ui, event>>

(* One field extractor on one object string.                               *)
ExtractField ==
    /\ last = Idle
    /\ \E extractor \in Extractors, json \in FieldTexts, key \in FieldKeys :
           last' = [Idle EXCEPT !.op = extractor,
                                !.input = <<json, key>>,
                                !.output = extract(extractor, json, key)]
    /\ UNCHANGED <<env, before, tmp, flights, state, ui, event>>

(* parse_sway_tree on the tree around the nodes ns.                        *)
ParseSwayTree ==
    /\ last = Idle
    /\ \E ns \in SwayNodeLists :
           LET parsed(json_str) ==
                   [Idle EXCEPT !.op = "parse_sway_tree",
                                !.input = <<ns, json_str>>,
                                !.result = parse_sway_tree(json_str)]
           IN  last' = parsed(sway_tree(ns))
    /\ UNCHANGED <<env, before, tmp, flights, state, ui, event>>

(* list_windows_gnome_wayland() when gdbus ends with outcome and, if it    *)
(* ends well, prints the dump of records.                                  *)
ListWindowsGnomeWayland ==
    /\ last = Idle
    /\ \E records \in GnomeRecordLists, outcome \in CommandOutcomes,
          world \in XcapWorlds :
           LET listed(output, r) ==
                   [Idle EXCEPT !.op = "list_windows_gnome_wayland",
                                !.input = <<records, output, world>>,
                                !.calls = r.calls, !.result = r.result]
               run(output) ==
                   listed(output,
                          list_windows_gnome_wayland(
                              [c \in {"gdbus"} |-> outcome],
                              [c \in {"gdbus"} |-> output], world))
           IN  last' = run(gvariant_dump(records))
    /\ UNCHANGED <<env, before, tmp, flights, state, ui, event>>

(* capture_window_xcap(window_info) on what Window::all() gives; output is *)
(* the window it selects.                                                  *)
CaptureWindowXcap ==
    /\ last = Idle
    /\ \E w \in Requested, world \in {None} \cup {Some(ws) : ws \in Enumerations} :
           LET captured(r) ==
                   [Idle EXCEPT !.op = "capture_window_xcap", !.win = Some(w),
                                !.input = world,
                                !.output = IF is_ok(world)
                                           THEN find_window(w, unwrap(world))
                                           ELSE None,
                                !.calls = r.calls, !.result = r.result]
           IN  last' = captured(capture_window_xcap(w, world))
    /\ UNCHANGED <<env, before, tmp, flights, state, ui, event>>

Next ==
    \/ SetSessionEnv
    \/ WindowListBackendCall
    \/ ListAllWindows
    \/ ListCapturableWindows
    \/ CaptureWindow
    \/ CapturePrimaryMonitor
    \/ Return

Spec == Init /\ [][Next]_vars

NextDetect ==
    \/ SetDetectEnv
    \/ Detect
    \/ Return

SpecDetect == Init /\ [][NextDetect]_vars

NextParse ==
    \/ ParseHyprlandJson
    \/ ExtractField
    \/ ParseSwayTree
    \/ ListWindowsGnomeWayland
    \/ Return

SpecParse == Init /\ [][NextParse]_vars

(* The corners: whole and fractional coordinates, on both sides of zero.   *)
CornerXs == {-3, 0, 20, 21, 100}

CornerYs == {-1, 40, 43, 160}

Corners == CornerXs \X CornerYs

(* RectangleAnnotation::from_corners(x1, y1, x2, y2, color, line_width).   *)
FromCorners ==
    /\ last = Idle
    /\ \E c1 \in Corners, c2 \in Corners :
           last' = [Idle EXCEPT !.op = "from_corners", !.input = <<c1, c2>>,
                               !.output = from_corners(c1[1], c1[2], c2[1], c2[2])]
    /\ UNCHANGED <<env, before, tmp, flights, state, ui, event>>

(* ToolState::get_drag_rect() with a drag from drag_start to drag_current. *)
GetDragRect ==
    /\ last = Idle
    /\ \E drag_start \in {None} \cup {Some(c) : c \in Corners},
          drag_current \in {None} \cup {Some(c) : c \in Corners} :
           /\ is_ok(drag_current) => is_ok(drag_start)
           /\ last' = [Idle EXCEPT !.op = "get_drag_rect",
                                   !.input = <<drag_start, drag_current>>,
                                   !.output = get_drag_rect(drag_start, drag_current)]
    /\ UNCHANGED <<env, before, tmp, flights, state, ui, event>>

(* Selection::rectangle() of a Selection from start to end.                *)
SelectionRectangle ==
    /\ last = Idle
    /\ \E c1 \in Corners, c2 \in Corners :
           last' = [Idle EXCEPT !.op = "rectangle", !.input = <<c1, c2>>,
                               !.output = rectangle(c1[1], c1[2], c2[1], c2[2])]
    /\ UNCHANGED <<env, before, tmp, flights, state, ui, event>>

(* The application window.  ui holds what of the UiComponents decides      *)
(* which handler can run: the visible bars, the active button of each      *)
(* toggle group, the open dialogs, the start point of the drag gesture in  *)
(* progress, and whether a handler has panicked.  event is the capture the *)
(* last handler made and what it returned, "-" when it made none.          *)

CaptureModes == {"Selection", "Window", "Screen"}

ToolButtons == {"Pointer", "Pencil", "Rectangle", "Crop", "Text"}

(* What a capture gives: the screen, a window, or an error.                *)
ScreenPixbuf == Pixbuf(40, 30)

WindowPixbuf == Pixbuf(24, 18)

(* Where the pointer goes, in display coordinates.                         *)
DragPoints == {<<f64(4), f64(4)>>, <<f64(30), f64(24)>>}

MaxDrawn == 1

MaxPoints == 2

(* The main window takes events: no handler has panicked and the modal     *)
(* window selector is not open.                                            *)
Usable == ~ui.panicked /\ ~ui.window_selector

Handled(call, returned, s, c) ==
    /\ state' = s
    /\ ui' = c
    /\ event' = [call |-> call, returned |-> returned]
    /\ UNCHANGED <<env, last, before, tmp, flights>>

(* capture_screen_or_selection(state, components, mode): Window mode opens *)
(* the window selector; otherwise capture_primary_monitor() returns        *)
(* outcome.                                                                *)
capture_screen_or_selection_resets(s, c, mode, outcome) ==
    IF mode = "Window" THEN <<s, [c EXCEPT !.window_selector = TRUE]>>
    ELSE IF outcome = "Err" THEN <<[s EXCEPT !.final_image = None], c>>
    ELSE IF mode = "Screen"
    THEN <<[s EXCEPT !.original_screenshot = Some(ScreenPixbuf),
                     !.final_image = Some(ScreenPixbuf), !.is_active = FALSE],
           [c EXCEPT !.tools_box = TRUE]>>
    ELSE <<[s EXCEPT !.original_screenshot = Some(ScreenPixbuf),
                     !.is_active = TRUE, !.mode = "Selection",
                     !.final_image = Some(ScreenPixbuf)],
           [c EXCEPT !.header_bar = FALSE, !.tools_box = FALSE,
                     !.crop_tools_box = FALSE, !.selection_tools_box = TRUE]>>

capture_screen_or_selection(s, c, mode, outcome) ==
    IF mode = "Window" THEN <<s, [c EXCEPT !.window_selector = TRUE]>>
    ELSE IF outcome = "Err" THEN <<s, c>>
    ELSE IF mode = "Screen"
    THEN <<[s EXCEPT !.original_screenshot = Some(ScreenPixbuf),
                     !.final_image = Some(ScreenPixbuf), !.is_active = FALSE],
           [c EXCEPT !.tools_box = TRUE]>>
    ELSE <<[s EXCEPT !.original_screenshot = Some(ScreenPixbuf),
                     !.is_active = TRUE, !.mode = "Selection",
                     !.final_image = Some(ScreenPixbuf)],
           [c EXCEPT !.header_bar = FALSE, !.tools_box = FALSE,
                     !.crop_tools_box = FALSE, !.selection_tools_box = TRUE]>>

CaptureCall(mode) == IF mode = "Window" THEN "-" ELSE "capture_primary_monitor"

Captured(mode, outcome) == IF mode = "Window" THEN "-" ELSE outcome

(* take_screenshot_btn clicked.                                            *)
TakeScreenshotClicked ==
    /\ Usable /\ ui.header_bar
    /\ \E outcome \in {"Ok", "Err"} :
           LET done == capture_screen_or_selection(state, ui, state.mode, outcome)
           IN  Handled(CaptureCall(state.mode), Captured(state.mode, outcome),
                       done[1], done[2])

(* Action::TakeScreenshot.                                                 *)
KeyTakeScreenshot ==
    /\ Usable
    /\ \E outcome \in {"Ok", "Err"} :
           LET done == capture_screen_or_selection(state, ui, state.mode, outcome)
           IN  Handled(CaptureCall(state.mode), Captured(state.mode, outcome),
                       done[1], done[2])

(* A row of the window selector activated: capture_window(window_info)     *)
(* returns outcome.                                                        *)
RowActivated ==
    /\ ~ui.panicked /\ ui.window_selector
    /\ \E outcome \in {"Ok", "Err"} :
           IF outcome = "Ok"
           THEN Handled("capture_window", outcome,
                        [state EXCEPT !.final_image = Some(WindowPixbuf),
                                      !.is_active = FALSE, !.editor = reset(@)],
                        [ui EXCEPT !.tools_box = TRUE,
                                           !.window_selector = FALSE])
           ELSE Handled("capture_window", outcome, state, ui)

(* The window selector closed by the user.                                 *)
CloseWindowSelector ==
    /\ ~ui.panicked /\ ui.window_selector
    /\ Handled("-", "-", state, [ui EXCEPT !.window_selector = FALSE])

(* A mode button of the header toggled on by a click.                      *)
ModeToggled ==
    /\ Usable /\ ui.header_bar
    /\ \E mode \in CaptureModes :
           /\ ui.mode_btn # mode
           /\ Handled("-", "-", [state EXCEPT !.mode = mode],
                      [ui EXCEPT !.mode_btn = mode])

(* Action::SwitchToSelection, SwitchToWindow, SwitchToScreen: s.mode is    *)
(* assigned, then set_active(true) on the button while s is still          *)
(* borrowed.  A button that was not active emits toggled, its handler      *)
(* calls state.borrow_mut() and panics in the signal callback.             *)
KeySwitchMode ==
    /\ Usable
    /\ \E mode \in CaptureModes :
           Handled("-", "-", [state EXCEPT !.mode = mode],
                   [ui EXCEPT !.mode_btn = mode,
                                      !.panicked = ui.mode_btn # mode])

(* Action::Cancel.                                                         *)
KeyCancel ==
    /\ Usable
    /\ IF state.is_active /\ state.mode = "Selection"
       THEN Handled("-", "-", exit_capture_mode(state),
                    [ui EXCEPT !.header_bar = TRUE,
                                       !.tools_box = is_ok(state.final_image),
                                       !.crop_tools_box = FALSE,
                                       !.selection_tools_box = FALSE])
       ELSE IF state.is_crop_mode
       THEN Handled("-", "-", exit_crop_mode(state),
                    [ui EXCEPT !.crop_tools_box = FALSE, !.tools_box = TRUE])
       ELSE Handled("-", "-", state, ui)

(* confirm_selection(state, window, header_bar, tools_box, crop_tools_box) *)
(* and the selection toolbar hidden by its two callers.                    *)
confirm_selection(s, c) ==
    IF apply_selection_crop(s).returns
    THEN <<[apply_selection_crop(s).state EXCEPT !.is_active = FALSE,
                                                 !.selection = None],
           [c EXCEPT !.header_bar = TRUE, !.tools_box = TRUE,
                     !.crop_tools_box = FALSE, !.selection_tools_box = FALSE]>>
    ELSE <<s, c>>

(* Action::Confirm.                                                        *)
KeyConfirm ==
    /\ Usable
    /\ IF state.is_active /\ state.mode = "Selection"
       THEN Handled("-", "-",
                    confirm_selection(state, ui)[1],
                    confirm_selection(state, ui)[2])
       ELSE Handled("-", "-", state, ui)

(* selection_toolbar.confirm_btn and cancel_btn clicked.                   *)
SelectionConfirmClicked ==
    /\ Usable /\ ui.selection_tools_box
    /\ Handled("-", "-",
               confirm_selection(state, ui)[1],
               confirm_selection(state, ui)[2])

SelectionCancelClicked ==
    /\ Usable /\ ui.selection_tools_box
    /\ Handled("-", "-", exit_capture_mode(state),
               [ui EXCEPT !.header_bar = TRUE,
                                  !.tools_box = is_ok(state.final_image),
                                  !.crop_tools_box = FALSE,
                                  !.selection_tools_box = FALSE])

(* ui/toolbar.rs connect_tool_buttons: a tool button toggled on by a click.*)
tool_toggled(s, tool) ==
    [s EXCEPT !.editor = set_tool(@, tool), !.is_crop_mode = (tool = "Crop")]

ToolToggled ==
    /\ Usable /\ ui.tools_box
    /\ \E tool \in ToolButtons :
           /\ ui.tool_btn # tool
           /\ Handled("-", "-", tool_toggled(state, tool),
                      IF tool = "Crop"
                      THEN [ui EXCEPT !.tool_btn = tool, !.tools_box = FALSE,
                                              !.crop_tools_box = TRUE]
                      ELSE [ui EXCEPT !.tool_btn = tool])

(* Action::ToolPointer, ToolPencil, ToolRectangle, ToolText and ToolCrop.  *)
KeyTool ==
    /\ Usable
    /\ \E tool \in ToolButtons :
           IF tool # "Crop"
           THEN Handled("-", "-", [state EXCEPT !.editor = set_tool(@, tool)],
                        ui)
           ELSE IF is_ok(state.final_image)
           THEN Handled("-", "-",
                        [state EXCEPT !.is_crop_mode = TRUE,
                                      !.editor = set_tool(@, "Crop")],
                        [ui EXCEPT !.tools_box = FALSE,
                                           !.crop_tools_box = TRUE])
           ELSE Handled("-", "-", state, ui)

(* crop_toolbar.confirm_btn and cancel_btn clicked.                        *)
CropConfirmClicked ==
    /\ Usable /\ ui.crop_tools_box
    /\ IF apply_editor_crop(state).returns
       THEN Handled("-", "-", exit_crop_mode(apply_editor_crop(state).state),
                    [ui EXCEPT !.tools_box = TRUE, !.crop_tools_box = FALSE])
       ELSE Handled("-", "-", state, ui)

CropCancelClicked ==
    /\ Usable /\ ui.crop_tools_box
    /\ Handled("-", "-", exit_crop_mode(state),
               [ui EXCEPT !.tools_box = TRUE, !.crop_tools_box = FALSE])

(* The drag gesture: drag_begin at a point, drag_update and drag_end with  *)
(* the offset from it.  A gesture draws only while the list and the free   *)
(* drawing have room in the model.                                         *)
Room(s) ==
    /\ s.editor.tool_state.is_drawing
       /\ s.editor.tool_state.active_tool \in {"Pencil", "Rectangle"}
       => Len(s.editor.annotations.annotations) < MaxDrawn
    /\ is_ok(s.editor.annotations.current_annotation)
       /\ unwrap(s.editor.annotations.current_annotation).kind = "FreeDraw"
       => Len(unwrap(s.editor.annotations.current_annotation).points) <= MaxPoints

DragBegin ==
    /\ Usable /\ ~is_ok(ui.gesture)
    /\ \E p \in DragPoints :
           /\ Room(handle_drag_begin(state, p[1], p[2]))
           /\ Handled("-", "-", handle_drag_begin(state, p[1], p[2]),
                      [ui EXCEPT !.gesture = Some(p)])

DragUpdate ==
    /\ Usable /\ is_ok(ui.gesture)
    /\ \E p \in DragPoints :
           LET offset_x == p[1] - unwrap(ui.gesture)[1]
               offset_y == p[2] - unwrap(ui.gesture)[2]
           IN  /\ Room(handle_drag_update(state, ui.gesture, offset_x, offset_y))
               /\ Handled("-", "-",
                          handle_drag_update(state, ui.gesture, offset_x, offset_y),
                          ui)

DragEnd ==
    /\ Usable /\ is_ok(ui.gesture)
    /\ \E p \in DragPoints :
           LET offset_x == p[1] - unwrap(ui.gesture)[1]
               offset_y == p[2] - unwrap(ui.gesture)[2]
           IN  Handled("-", "-",
                       handle_drag_end(state, ui.gesture, offset_x, offset_y),
                       [ui EXCEPT !.gesture = None])

(* perform_undo, from undo_btn and Action::Undo.                           *)
PerformUndo ==
    /\ Usable
    /\ Handled("-", "-",
               [state EXCEPT !.editor = undo(@)], ui)

(* ui/header.rs connect_delay_controls: delay_minus and delay_plus clicked.*)
DelayMinus ==
    /\ Usable /\ ui.header_bar
    /\ Handled("-", "-", decrement_delay(state), ui)

DelayPlus ==
    /\ Usable /\ ui.header_bar
    /\ Handled("-", "-", increment_delay(state), ui)

(* A drag that starts with the Crop tool, to draw the crop rectangle.      *)
CropDragBegin ==
    /\ state.editor.tool_state.active_tool = "Crop"
    /\ DragBegin

(* The tools of the editor and its crop mode, on a captured image.         *)
NextCropMode ==
    \/ TakeScreenshotClicked
    \/ KeyCancel
    \/ ToolToggled
    \/ KeyTool
    \/ CropConfirmClicked
    \/ CropCancelClicked
    \/ CropDragBegin
    \/ DragUpdate
    \/ DragEnd

SpecCropMode == Init /\ [][NextCropMode]_vars

(* Drawing on a captured image.                                            *)
NextDraw ==
    \/ TakeScreenshotClicked
    \/ KeyCancel
    \/ KeyTool
    \/ DragBegin
    \/ DragUpdate
    \/ DragEnd
    \/ PerformUndo

SpecDraw == Init /\ [][NextDraw]_vars

(* EditorState on its own: its operations called in any order on the       *)
(* editor of the state.  event is the operation called and what it         *)
(* returned, "-" for one that returns nothing.  An operation is called     *)
(* only while its result fits the bounds of the model.  The tools are      *)
(* those the operations tell apart, and Pointer for the others.            *)
EditorTools == {"Pointer", "Pencil", "Rectangle", "Text"}

Texts == {<<>>, <<"h", "i">>}

MaxAnnotations == 2

(* on_drag_start and on_drag_update are called at the first point, the     *)
(* pointer operations at both.                                             *)
DrawPoints == {<<f64(4), f64(4)>>}

Fits(e) ==
    /\ Len(e.annotations.annotations) <= MaxAnnotations
    /\ is_ok(e.annotations.current_annotation)
       /\ unwrap(e.annotations.current_annotation).kind = "FreeDraw"
       => Len(unwrap(e.annotations.current_annotation).points) <= MaxPoints

Called(call, returned, e) ==
    /\ state' = [state EXCEPT !.editor = e]
    /\ event' = [call |-> call, returned |-> returned]
    /\ UNCHANGED <<env, last, before, tmp, flights, ui>>

SetTool ==
    \E tool \in EditorTools :
        /\ Fits(set_tool(state.editor, tool))
        /\ Called("-", "-", set_tool(state.editor, tool))

OnDragStart ==
    \E p \in DrawPoints :
        /\ Fits(on_drag_start(state.editor, p[1], p[2]))
        /\ Called("-", "-", on_drag_start(state.editor, p[1], p[2]))

OnDragUpdate ==
    \E p \in DrawPoints :
        /\ Fits(on_drag_update(state.editor, p[1], p[2]))
        /\ Called("-", "-", on_drag_update(state.editor, p[1], p[2]))

OnDragEnd ==
    /\ Fits(on_drag_end(state.editor))
    /\ Called("-", "-", on_drag_end(state.editor))

PointerDragStart ==
    \E p \in DragPoints :
        /\ Fits(pointer_drag_start(state.editor, p[1], p[2]))
        /\ Called("pointer_drag_start",
                  pointer_drag_start_returns(state.editor, p[1], p[2]),
                  pointer_drag_start(state.editor, p[1], p[2]))

PointerDragUpdate ==
    \E p \in DragPoints :
        /\ Fits(pointer_drag_update(state.editor, p[1], p[2]))
        /\ Called("-", "-", pointer_drag_update(state.editor, p[1], p[2]))

PointerDragEnd ==
    /\ Fits(pointer_drag_end(state.editor))
    /\ Called("-", "-", pointer_drag_end(state.editor))

CommitText ==
    \E text \in Texts :
        /\ Fits(commit_text(state.editor, text))
        /\ Called("-", "-", commit_text(state.editor, text))

CancelText ==
    /\ Fits(cancel_text(state.editor))
    /\ Called("-", "-", cancel_text(state.editor))

Undo ==
    /\ Fits(undo(state.editor))
    /\ Called("undo", undo_returns(state.editor.annotations), undo(state.editor))

ClearAnnotations ==
    /\ Fits(clear_annotations(state.editor))
    /\ Called("-", "-", clear_annotations(state.editor))

Reset ==
    /\ Fits(reset(state.editor))
    /\ Called("-", "-", reset(state.editor))

NextEditor ==
    \/ SetTool
    \/ OnDragStart
    \/ OnDragUpdate
    \/ OnDragEnd
    \/ PointerDragStart
    \/ PointerDragUpdate
    \/ PointerDragEnd
    \/ CommitText
    \/ CancelText
    \/ Undo
    \/ ClearAnnotations
    \/ Reset

SpecEditor == Init /\ [][NextEditor]_vars

(* The header bar and what its buttons start.                              *)
NextHeader ==
    \/ ModeToggled
    \/ KeySwitchMode
    \/ DelayMinus
    \/ DelayPlus
    \/ TakeScreenshotClicked
    \/ KeyTakeScreenshot
    \/ RowActivated
    \/ CloseWindowSelector
    \/ KeyCancel
    \/ KeyConfirm
    \/ SelectionConfirmClicked
    \/ SelectionCancelClicked
    \/ DragBegin
    \/ DragUpdate
    \/ DragEnd

SpecHeader == Init /\ [][NextHeader]_vars

(* The crops on their own.  Coordinates on and off the image, on both      *)
(* sides of the 10 of is_significant, one of them between two pixels; a    *)
(* Pixbuf is at least 1 by 1.  The editor holds an annotation, for a crop  *)
(* to clear.                                                               *)
CropCoords == {-f64(6), f64(0), f64(12) + 1, f64(36), f64(50)}

CropPoints == CropCoords \X CropCoords

CropPixbufs == {Pixbuf(40, 30), Pixbuf(12, 8), Pixbuf(1, 1)}

CropOrigins == {-3, 0, 11, 39, 45}

CropSizes == {-1, 0, 5, 60}

AnnotatedEditor ==
    [EditorState_default EXCEPT
        !.annotations = add(@, RectangleAnnotation_new(f64(2), f64(2), f64(3), f64(3)))]

(* AppState::apply_selection_crop() on the overlay of a screenshot.        *)
ApplySelectionCrop ==
    /\ last = Idle
    /\ \E orig \in {None} \cup {Some(p) : p \in CropPixbufs},
          selection \in {None} \cup
                        {Some([Selection_new(c1[1], c1[2])
                                   EXCEPT !.end_x = c2[1], !.end_y = c2[2]]) :
                         c1 \in CropPoints, c2 \in CropPoints} :
           last' = [Idle EXCEPT
                       !.op = "apply_selection_crop",
                       !.input = [AppState_new EXCEPT !.original_screenshot = orig,
                                                      !.final_image = orig,
                                                      !.is_active = TRUE,
                                                      !.selection = selection,
                                                      !.editor = AnnotatedEditor],
                       !.output = apply_selection_crop(
                                      [AppState_new EXCEPT !.original_screenshot = orig,
                                                           !.final_image = orig,
                                                           !.is_active = TRUE,
                                                           !.selection = selection,
                                                           !.editor = AnnotatedEditor])]
    /\ UNCHANGED <<env, before, tmp, flights, state, ui, event>>

(* AppState::apply_editor_crop() after a drag with the Crop tool.          *)
ApplyEditorCrop ==
    /\ last = Idle
    /\ \E pixbuf \in {None} \cup {Some(p) : p \in CropPixbufs},
          drag_start \in {None} \cup {Some(c) : c \in CropPoints},
          drag_current \in {None} \cup {Some(c) : c \in CropPoints} :
           /\ is_ok(drag_current) = is_ok(drag_start)
           /\ last' = [Idle EXCEPT
                          !.op = "apply_editor_crop",
                          !.input = [AppState_new EXCEPT
                                        !.final_image = pixbuf,
                                        !.is_crop_mode = TRUE,
                                        !.editor =
                                            [AnnotatedEditor EXCEPT
                                                !.tool_state.active_tool = "Crop",
                                                !.tool_state.drag_start = drag_start,
                                                !.tool_state.drag_current = drag_current]],
                          !.output = apply_editor_crop(
                                      [AppState_new EXCEPT
                                        !.final_image = pixbuf,
                                        !.is_crop_mode = TRUE,
                                        !.editor =
                                            [AnnotatedEditor EXCEPT
                                                !.tool_state.active_tool = "Crop",
                                                !.tool_state.drag_start = drag_start,
                                                !.tool_state.drag_current = drag_current]])]
    /\ UNCHANGED <<env, before, tmp, flights, state, ui, event>>

(* crop_pixbuf(pixbuf, x, y, width, height) of capture/window_backends.rs. *)
CropPixbuf ==
    /\ last = Idle
    /\ \E pixbuf \in CropPixbufs, x \in CropOrigins, y \in CropOrigins,
          width \in CropSizes, height \in CropSizes :
           last' = [Idle EXCEPT
                       !.op = "crop_pixbuf",
                       !.input = <<pixbuf, x, y, width, height>>,
                       !.output = crop_pixbuf(<<pixbuf.width, pixbuf.height>>,
                                              x, y, width, height)]
    /\ UNCHANGED <<env, before, tmp, flights, state, ui, event>>

NextCrop ==
    \/ ApplySelectionCrop
    \/ ApplyEditorCrop
    \/ CropPixbuf
    \/ Return

SpecCrop == Init /\ [][NextCrop]_vars

NextRect ==
    \/ FromCorners
    \/ GetDragRect
    \/ SelectionRectangle
    \/ Return

SpecRect == Init /\ [][NextRect]_vars

(* capture_window_hyprland(window_info) or capture_screen_wayland(de) is   *)
(* entered in process pid and has made its temp_path.                      *)
BeginCapture ==
    /\ \E i \in InFlight, kind \in {"window", "screen"}, pid \in Pids :
           /\ flights[i].pc = "none"
           /\ flights' = [flights EXCEPT ![i] =
                             [NotStarted EXCEPT !.pc = "command", !.kind = kind,
                                                !.pid = pid]]
    /\ UNCHANGED <<env, last, before, tmp, state, ui, event>>

(* Command::new("grim") ... output(): grim writes temp_path and exits 0.   *)
ToolWrites ==
    /\ \E i \in InFlight :
           LET written(path) ==
                   /\ tmp' = [tmp EXCEPT ![path] = Some(i)]
                   /\ flights' = [flights EXCEPT
                                     ![i].pc = "load",
                                     ![i].touched = @ \/ of_another(i, path)]
           IN  /\ flights[i].pc = "command"
               /\ written(temp_path(flights[i].kind, flights[i].pid))
    /\ UNCHANGED <<env, last, before, state, ui, event>>

(* load_pixbuf_from_file(&temp_path)?: on Err the window backend returns   *)
(* at once; capture_with_grim returns too, and capture_screen_wayland then *)
(* removes the file.                                                       *)
LoadPixbuf ==
    /\ \E i \in InFlight :
           LET load(path) ==
                   IF is_ok(tmp[path])
                   THEN flights' = [flights EXCEPT ![i].pc = "remove",
                                                   ![i].loaded = tmp[path]]
                   ELSE flights' = [flights EXCEPT
                                       ![i].pc = IF flights[i].kind = "window"
                                                 THEN "return" ELSE "remove"]
           IN  /\ flights[i].pc = "load"
               /\ load(temp_path(flights[i].kind, flights[i].pid))
    /\ UNCHANGED <<env, last, before, tmp, state, ui, event>>

(* let _ = std::fs::remove_file(&temp_path).                               *)
RemoveFile ==
    /\ \E i \in InFlight :
           LET removed(path) ==
                   /\ tmp' = [tmp EXCEPT ![path] = None]
                   /\ flights' = [flights EXCEPT
                                     ![i].pc = "return",
                                     ![i].touched = @ \/ of_another(i, path)]
           IN  /\ flights[i].pc = "remove"
               /\ removed(temp_path(flights[i].kind, flights[i].pid))
    /\ UNCHANGED <<env, last, before, state, ui, event>>

(* The capture returns to its caller.                                      *)
ReturnCapture ==
    /\ \E i \in InFlight :
           /\ flights[i].pc = "return"
           /\ flights' = [flights EXCEPT ![i] = NotStarted]
    /\ UNCHANGED <<env, last, before, tmp, state, ui, event>>

NextFlights ==
    \/ BeginCapture
    \/ ToolWrites
    \/ LoadPixbuf
    \/ RemoveFile
    \/ ReturnCapture

SpecFlights == Init /\ [][NextFlights]_vars

NextXcap ==
    \/ CaptureWindowXcap
    \/ Return

SpecXcap == Init /\ [][NextXcap]_vars

NextNested ==
    \/ SetNestedEnv
    \/ Detect
    \/ ListCapturableWindows
    \/ CaptureWindow
    \/ CapturePrimaryMonitor
    \/ ReturnRemembered

SpecNested == Init /\ [][NextNested]_vars

-----------------------------------------------------------------------------
(* Backend selection.                                                      *)

Row(des, servers, backend) == [des |-> des, servers |-> servers, backend |-> backend]

AnyEnvironment == NamedEnvironments \cup {"Other"}

(* The selection table, one row per line, in the documented order.         *)
SelectionTable ==
    <<Row({"Hyprland"}, {"Wayland"}, "Hyprland"),
      Row({"Sway"}, {"Wayland"}, "Sway"),
      Row({"Gnome"}, {"Wayland"}, "GnomeWayland"),
      Row({"Kde"}, {"Wayland"}, "KdeWayland"),
      Row(AnyEnvironment, {"X11"}, "X11"),
      Row(AnyEnvironment, DisplayServer, "Xcap")>>

RowMatches(row, session) ==
    /\ session.desktop_environment.tag \in row.des
    /\ session.display_server \in row.servers

FirstMatchingRow(session) ==
    SelectionTable[CHOOSE i \in 1..Len(SelectionTable) :
                      /\ RowMatches(SelectionTable[i], session)
                      /\ \A j \in 1..(i - 1) : ~RowMatches(SelectionTable[j], session)]

(* C1: for every session, window_list_backend returns one backend, the one *)
(* of the first matching row of the selection table; Hyprland, Sway, Gnome *)
(* and Kde give X11 on an X11 server and Xcap on an Unknown server.        *)
C1_BackendIsFirstMatchingRow ==
    last.op = "window_list_backend" =>
        LET de == last.session.desktop_environment.tag
            ds == last.session.display_server
        IN  /\ last.backend \in WindowListBackend
            /\ last.backend = FirstMatchingRow(last.session).backend
            /\ last.backend = window_list_backend(last.session)
            /\ (de \in {"Hyprland", "Sway", "Gnome", "Kde"} /\ ds = "X11"
                    => last.backend = "X11")
            /\ (de \in {"Hyprland", "Sway", "Gnome", "Kde"} /\ ds = "Unknown"
                    => last.backend = "Xcap")

C1_GnomeOnX11 ==
    /\ last.op = "window_list_backend"
    /\ last.session = DesktopSession("X11", DE("Gnome"))
    /\ last.backend = "X11"

-----------------------------------------------------------------------------
(* Window listing.                                                         *)

GenericEnumerationFailed(calls) ==
    \E i \in 1..Len(calls) :
        /\ calls[i].tool = "xcap"
        /\ calls[i].args = <<"Window::all">>
        /\ calls[i].outcome = "err"

-----------------------------------------------------------------------------
(* Window capture.                                                         *)

IsCommand(call) == call.tool # "xcap"

Commands(calls) == SelectSeq(calls, IsCommand)

(* C3, as stated: when every external tool run by one capture_window call  *)
(* could not be launched or exited non-zero, the error returned is the one *)
(* the generic (xcap) backend produced.                                    *)
C3_AllToolsFailedGivesGenericError ==
    (/\ last.op = "capture_window"
     /\ ~last.result.ok
     /\ \A i \in 1..Len(last.calls) :
            IsCommand(last.calls[i])
                => last.calls[i].outcome \in {"spawn_err", "nonzero"})
        => last.result.by = "xcap"

(* C4, as stated: capture_window on a WindowInfo whose is_minimized flag   *)
(* is true returns WindowMinimized and runs no external capture tool.      *)
C4_MinimizedRefusedWithoutTools ==
    (last.op = "capture_window" /\ unwrap(last.win).is_minimized) =>
        /\ ~last.result.ok
        /\ last.result.err = "WindowMinimized"
        /\ Commands(last.calls) = <<>>

(* The documented chain of a backend's window capture: the Commands, each  *)
(* as <<tool, first argument>>, before the generic backend.                *)
WindowCaptureChain(backend) ==
    CASE backend \in {"Hyprland", "Sway"} -> << <<"grim", "-g">> >>
      [] backend = "GnomeWayland" ->
            << <<"gdbus", "ScreenshotWindow">>, <<"grim", "-g">>,
               <<"gnome-screenshot", "-f">> >>
      [] backend = "KdeWayland" -> << <<"spectacle", "-a">>, <<"grim", "-g">> >>
      [] OTHER -> <<>>

(* C6, as stated: the Commands run by one window capture are a prefix of   *)
(* the documented chain of the backend, grim is given the window geometry, *)
(* a step runs only after every earlier step failed, and the generic       *)
(* backend is reached only after the whole chain.                          *)
C6_InvocationsArePrefixOfChain ==
    last.op = "capture_window" =>
        LET chain == WindowCaptureChain(last.backend)
            cmds == Commands(last.calls)
            n == Len(cmds)
        IN  /\ n <= Len(chain)
            /\ \A i \in 1..n :
                   /\ <<cmds[i].tool, cmds[i].args[1]>> = chain[i]
                   /\ cmds[i].tool = "grim"
                          => cmds[i].args = <<"-g", geometry(unwrap(last.win))>>
                   /\ i < n => cmds[i].outcome # "ok"
            /\ \A i \in 1..Len(last.calls) :
                   ~IsCommand(last.calls[i]) => (n = Len(chain) /\ i > n)
            /\ (last.result.ok /\ last.result.by # "xcap")
                   => (cmds[n].outcome = "ok" /\ last.result.by = cmds[n].tool)

-----------------------------------------------------------------------------
(* Screen capture.                                                         *)

WaylandScreenChain(de) ==
    CASE de.tag \in {"Hyprland", "Sway"} -> <<"grim">>
      [] de.tag = "Gnome" -> <<"gnome-screenshot", "grim">>
      [] de.tag = "Kde" -> <<"spectacle", "grim">>
      [] OTHER -> <<"grim", "gnome-screenshot", "spectacle">>

(* The documented order of capture methods for a session.                  *)
ScreenChain(session) ==
    CASE session.display_server = "X11" -> <<"xcap">>
      [] session.display_server = "Wayland" ->
            WaylandScreenChain(session.desktop_environment)
      [] OTHER -> WaylandScreenChain(session.desktop_environment) \o <<"xcap">>

(* The methods one call tried, in order: each Command, and the in-process  *)
(* grab once however many xcap calls it made.                              *)
RECURSIVE MethodsTried(_)
MethodsTried(calls) ==
    IF calls = <<>> THEN <<>>
    ELSE IF IsCommand(Head(calls))
         THEN <<Head(calls).tool>> \o MethodsTried(Tail(calls))
         ELSE <<"xcap">>

(* C5: capture_primary_monitor tries the methods of the session's chain in *)
(* order, a later one only after every earlier one failed, stops at the    *)
(* first success, and fails only when the whole chain failed; an X11       *)
(* session runs no subprocess.                                             *)
C5_ScreenMethodsInDocumentedOrder ==
    last.op = "capture_primary_monitor" =>
        LET chain == ScreenChain(last.session)
            tried == MethodsTried(last.calls)
            n == Len(tried)
            cmds == Commands(last.calls)
        IN  /\ n >= 1
            /\ n <= Len(chain)
            /\ tried = SubSeq(chain, 1, n)
            /\ \A i \in 1..Len(last.calls) :
                   ~IsCommand(last.calls[i]) => i > Len(cmds)
            /\ \A i \in 1..Len(cmds) :
                   cmds[i].outcome = "ok" => (i = n /\ last.result.ok)
            /\ last.result.ok => last.result.by = tried[n]
            /\ ~last.result.ok => n = Len(chain)
            /\ last.session.display_server = "X11" => cmds = <<>>

C5_UnknownServerFallsBackToGrab ==
    /\ last.op = "capture_primary_monitor"
    /\ last.session.display_server = "Unknown"
    /\ last.session.desktop_environment.tag = "Gnome"
    /\ Len(Commands(last.calls)) = 2
    /\ last.calls[1].tool = "gnome-screenshot"
    /\ last.calls[2].tool = "grim"
    /\ last.result.ok
    /\ last.result.by = "xcap"

-----------------------------------------------------------------------------
(* Session detection.                                                      *)

IsSet(v) == is_ok(env[v])

DetectedEnvironment == last.session.desktop_environment

(* C7: when HYPRLAND_INSTANCE_SIGNATURE is set detect() gives Hyprland,    *)
(* and when it is unset and SWAYSOCK is set detect() gives Sway, whatever  *)
(* the other variables hold.                                               *)
C7_CompositorSignaturesFirst ==
    last.op = "detect" =>
        /\ IsSet("HYPRLAND_INSTANCE_SIGNATURE") => DetectedEnvironment = DE("Hyprland")
        /\ (~IsSet("HYPRLAND_INSTANCE_SIGNATURE") /\ IsSet("SWAYSOCK"))
               => DetectedEnvironment = DE("Sway")

C7_SwayOverDesktopHints ==
    /\ last.op = "detect"
    /\ ~IsSet("HYPRLAND_INSTANCE_SIGNATURE")
    /\ IsSet("SWAYSOCK")
    /\ env["XDG_CURRENT_DESKTOP"] = Some(v_ubuntu_GNOME)
    /\ env["DESKTOP_SESSION"] = Some(v_plasmawayland)
    /\ IsSet("KDE_FULL_SESSION")
    /\ DetectedEnvironment = DE("Sway")

(* C8: when HYPRLAND_INSTANCE_SIGNATURE is set and XDG_SESSION_TYPE is     *)
(* wayland, detect() returns (Hyprland, Wayland) and window_list_backend   *)
(* of that session is Hyprland, whatever the other variables hold.         *)
C8_HyprlandWaylandSelectsHyprland ==
    (/\ last.op = "detect"
     /\ IsSet("HYPRLAND_INSTANCE_SIGNATURE")
     /\ env["XDG_SESSION_TYPE"] = Some(v_wayland))
        => /\ last.session = DesktopSession("Wayland", DE("Hyprland"))
           /\ window_list_backend(last.session) = "Hyprland"

C8_HyprlandWaylandAmongOtherSignals ==
    /\ last.op = "detect"
    /\ IsSet("HYPRLAND_INSTANCE_SIGNATURE")
    /\ env["XDG_SESSION_TYPE"] = Some(v_wayland)
    /\ IsSet("DISPLAY")
    /\ env["XDG_CURRENT_DESKTOP"] = Some(v_Unity_KDE)
    /\ window_list_backend(last.session) = "Hyprland"

(* XDG_SESSION_TYPE says x when it is set to x in any letter case.         *)
SessionTypeSays(x) ==
    /\ IsSet("XDG_SESSION_TYPE")
    /\ to_lowercase(unwrap(env["XDG_SESSION_TYPE"])) = x

(* C9: the display server is Wayland when XDG_SESSION_TYPE says wayland,   *)
(* X11 when it says x11; for an unset or other value it is Wayland when    *)
(* WAYLAND_DISPLAY is set, else X11 when DISPLAY is set, else Unknown.     *)
C9_DisplayServerPriority ==
    last.op = "detect" =>
        LET server == last.session.display_server
            other == ~SessionTypeSays(s_wayland) /\ ~SessionTypeSays(s_x11)
        IN  /\ SessionTypeSays(s_wayland) => server = "Wayland"
            /\ SessionTypeSays(s_x11) => server = "X11"
            /\ (other /\ IsSet("WAYLAND_DISPLAY")) => server = "Wayland"
            /\ (other /\ ~IsSet("WAYLAND_DISPLAY") /\ IsSet("DISPLAY"))
                   => server = "X11"
            /\ (other /\ ~IsSet("WAYLAND_DISPLAY") /\ ~IsSet("DISPLAY"))
                   => server = "Unknown"

C9_WaylandDisplayOverDisplay ==
    /\ last.op = "detect"
    /\ env["XDG_SESSION_TYPE"] = Some(v_tty)
    /\ IsSet("WAYLAND_DISPLAY")
    /\ IsSet("DISPLAY")
    /\ last.session.display_server = "Wayland"

(* The environment the alias table gives the first token, left to right,   *)
(* that is in the table; "continue" when no token is.                      *)
RECURSIVE FirstTokenInTable(_)
FirstTokenInTable(tokens) ==
    IF tokens = <<>> THEN "continue"
    ELSE IF match_component(Head(tokens)) # "continue"
         THEN match_component(Head(tokens))
         ELSE FirstTokenInTable(Tail(tokens))

(* What XDG_CURRENT_DESKTOP decides when neither compositor signature is   *)
(* set: the environment of the first token in the table, else Other with   *)
(* the unmodified value when it is not empty, and then nothing further is  *)
(* read and no probe is spawned.                                           *)
CurrentDesktopDecides(trimmed) ==
    (/\ last.op = "detect"
     /\ ~IsSet("HYPRLAND_INSTANCE_SIGNATURE")
     /\ ~IsSet("SWAYSOCK")
     /\ IsSet("XDG_CURRENT_DESKTOP")) =>
        LET raw == unwrap(env["XDG_CURRENT_DESKTOP"])
            tokens == split(to_lowercase(raw), ":")
            found == FirstTokenInTable(
                         [i \in 1..Len(tokens) |->
                             IF trimmed THEN trim(tokens[i]) ELSE tokens[i]])
        IN  /\ found # "continue" => DetectedEnvironment = DE(found)
            /\ (found = "continue" /\ raw # <<>>)
                   => DetectedEnvironment = Other(Some(raw))
            /\ (found # "continue" \/ raw # <<>>)
                   => /\ last.reads = <<"HYPRLAND_INSTANCE_SIGNATURE", "SWAYSOCK",
                                        "XDG_CURRENT_DESKTOP">>
                      /\ last.spawned = <<>>

(* C10, as stated: the colon-separated tokens are compared with the alias  *)
(* table case-insensitively, as they stand.                                *)
C10_FirstTokenAsItStands == CurrentDesktopDecides(FALSE)

(* C10, amended: each colon-separated token is trimmed of surrounding      *)
(* white space before it is compared case-insensitively with the alias     *)
(* table; the first token in the table decides, else a non-empty value     *)
(* gives Other carrying the unmodified string, and no lower-priority       *)
(* signal is consulted.                                                    *)
C10_FirstTrimmedToken == CurrentDesktopDecides(TRUE)

C10_PaddedTokenMatches ==
    /\ last.op = "detect"
    /\ ~IsSet("HYPRLAND_INSTANCE_SIGNATURE")
    /\ ~IsSet("SWAYSOCK")
    /\ env["XDG_CURRENT_DESKTOP"] = Some(v_Budgie_sp_Gnome)
    /\ env["DESKTOP_SESSION"] = Some(v_kde_mate)
    /\ DetectedEnvironment = DE("Gnome")

-----------------------------------------------------------------------------
(* The hyprctl probe.                                                      *)

(* No environment signal decides the desktop environment: both compositor  *)
(* signatures unset, XDG_CURRENT_DESKTOP unset or empty or without a token *)
(* of the table, DESKTOP_SESSION unset or without a known name in it, and  *)
(* both legacy flags unset.                                                *)
NoSignalDecides ==
    /\ ~IsSet("HYPRLAND_INSTANCE_SIGNATURE")
    /\ ~IsSet("SWAYSOCK")
    /\ \/ ~IsSet("XDG_CURRENT_DESKTOP")
       \/ unwrap(env["XDG_CURRENT_DESKTOP"]) = <<>>
    /\ \/ ~IsSet("DESKTOP_SESSION")
       \/ match_desktop_session(to_lowercase(unwrap(env["DESKTOP_SESSION"])))
              = "continue"
    /\ ~IsSet("KDE_FULL_SESSION")
    /\ ~IsSet("GNOME_DESKTOP_SESSION_ID")

(* C11: detect() spawns hyprctl version exactly when the display server    *)
(* resolved to Wayland and no environment signal decided, and nothing else *)
(* ever; a probe that succeeds gives Hyprland, one that exits non-zero or  *)
(* cannot be launched gives Other(None).                                   *)
C11_ProbeOnlyAsLastResortOnWayland ==
    last.op = "detect" =>
        /\ Len(last.spawned) <= 1
        /\ last.spawned # <<>>
              <=> (last.session.display_server = "Wayland" /\ NoSignalDecides)
        /\ \A i \in 1..Len(last.spawned) :
              /\ last.spawned[i].tool = "hyprctl"
              /\ last.spawned[i].args = <<"version">>
              /\ last.spawned[i].outcome = "ok" => DetectedEnvironment = DE("Hyprland")
              /\ last.spawned[i].outcome # "ok" => DetectedEnvironment = Other(None)

C11_FailedProbeGivesOther ==
    /\ last.op = "detect"
    /\ last.spawned = <<hyprctl_version("spawn_err")>>
    /\ IsSet("XDG_CURRENT_DESKTOP")
    /\ IsSet("DESKTOP_SESSION")
    /\ DetectedEnvironment = Other(None)

-----------------------------------------------------------------------------
(* Detection is total.                                                     *)

DesktopEnvironments ==
    {DE(t) : t \in NamedEnvironments}
        \cup {Other(None)}
        \cup {Other(env["XDG_CURRENT_DESKTOP"])}

NoServerSignal ==
    /\ ~SessionTypeSays(s_wayland)
    /\ ~SessionTypeSays(s_x11)
    /\ ~IsSet("WAYLAND_DISPLAY")
    /\ ~IsSet("DISPLAY")

(* C12: whatever the variables hold and however the probe ends, detect()   *)
(* returns a DesktopSession and nothing else: one of the three             *)
(* display servers with a named environment or Other; with no signal for   *)
(* the server it is Unknown, and with no signal for the environment and no *)
(* successful probe it is Other(None).                                     *)
C12_DetectAlwaysReturnsASession ==
    last.op = "detect" =>
        /\ last.session.display_server \in DisplayServer
        /\ DetectedEnvironment \in DesktopEnvironments
        /\ NoServerSignal => last.session.display_server = "Unknown"
        /\ (NoSignalDecides /\ DetectedEnvironment # DE("Hyprland"))
              => DetectedEnvironment = Other(None)

C12_NothingMatches ==
    /\ last.op = "detect"
    /\ IsSet("XDG_SESSION_TYPE")
    /\ IsSet("XDG_CURRENT_DESKTOP")
    /\ IsSet("DESKTOP_SESSION")
    /\ last.session = DesktopSession("Unknown", Other(None))

-----------------------------------------------------------------------------
(* No cached session.                                                      *)

SessionOps ==
    {"detect", "list_capturable_windows", "capture_window",
     "capture_primary_monitor"}

(* The session and the probe that detection gives in the environment as it *)
(* is now, for some outcome of the probe.                                  *)
SessionOfThisEnvironment ==
    \E probe \in ProbeOutcomes :
        /\ last.session =
              DesktopSession(
                  detect_display_server(env),
                  detect_desktop_environment(env, detect_display_server(env),
                                             probe).de)
        /\ last.spawned =
              detect_desktop_environment(env, detect_display_server(env),
                                         probe).spawned

(* C13: in any sequence of detect, list_capturable_windows, capture_window *)
(* and capture_primary_monitor calls with the environment changed between  *)
(* calls, each call uses the session computed from the environment at the  *)
(* time of the call and the backend of that session, and a call made under *)
(* the same environment and probe outcome as the call before it uses the   *)
(* same session.                                                           *)
C13_SessionComputedAtEachCall ==
    last.op \in SessionOps =>
        /\ SessionOfThisEnvironment
        /\ last.op \in {"list_capturable_windows", "capture_window"}
              => last.backend = window_list_backend(last.session)
        /\ (before.op # "none" /\ before.env = env
                /\ before.spawned = last.spawned)
              => last.session = before.session

C13_EnvironmentChangedBetweenCalls ==
    /\ before.op = "list_capturable_windows"
    /\ last.op = "capture_window"
    /\ before.env # env
    /\ before.session # last.session
    /\ before.session.display_server = "X11"
    /\ last.session.display_server = "Wayland"

-----------------------------------------------------------------------------
(* The Hyprland and Sway parsers.                                          *)

(* C14: for every well-formed JSON array of flat objects, among them       *)
(* objects whose string values hold braces, brackets, escaped quotes or    *)
(* backslashes, parse_hyprland_json extracts as many object substrings as  *)
(* the array has top-level objects, each from the opening brace of an      *)
(* object to its matching closing brace.                                   *)
C14_EachObjectExtracted ==
    last.op = "parse_hyprland_json" =>
        last.output = [k \in 1..Len(last.input[1]) |-> Some(last.input[1][k])]

(* The sampled calls whose value after the key is malformed for the        *)
(* extractor, or cut off.                                                  *)
MalformedFields ==
    {<<"extract_json_string", o_malformed, <<"t", "i", "t", "l", "e">>>>,
     <<"extract_json_number", o_malformed, <<"p", "i", "d">>>>,
     <<"extract_json_bool", o_malformed,
       <<"f", "o", "c", "u", "s", "H", "i", "s", "t", "o", "r", "y", "I", "D">>>>,
     <<"extract_json_bool_field", o_malformed, <<"h", "i", "d", "d", "e", "n">>>>,
     <<"extract_json_position", o_malformed, <<"a", "t">>>>,
     <<"extract_json_size", o_malformed, <<"s", "i", "z", "e">>>>,
     <<"extract_json_string", o_stray, <<"c", "l", "a", "s", "s">>>>,
     <<"extract_json_string", o_truncated, <<"t", "i", "t", "l", "e">>>>}

LacksKey(json, key) == ~contains(json, <<"\"">> \o key \o <<"\"", ":">>)

(* C15: every field extractor is total: on an object string that lacks    *)
(* the key, or whose value after the key is malformed or cut off, it       *)
(* returns None, and it never panics.                                      *)
C15_ExtractorsAreTotal ==
    last.op \in Extractors =>
        /\ ~panicked(last.output)
        /\ LacksKey(last.input[1], last.input[2]) => last.output = None
        /\ <<last.op, last.input[1], last.input[2]>> \in MalformedFields
              => last.output = None

(* The fields of the sampled client objects that have every field, read    *)
(* off their JSON text.                                                    *)
CompleteClients == {o_sample, o_cafe}

ClientFields(obj) ==
    IF obj = o_sample
    THEN [id |-> 305419896, pid |-> 1234,
          app_name |-> <<"f", "i", "r", "e", "f", "o", "x">>,
          title |-> <<"M", "o", "z", "i", "l", "l", "a", " ", "F",
                       "i", "r", "e", "f", "o", "x">>,
          x |-> 100, y |-> 200, z |-> 0, width |-> 800, height |-> 600,
          is_minimized |-> FALSE, is_maximized |-> FALSE, is_focused |-> TRUE]
    ELSE [id |-> 10, pid |-> 9, app_name |-> <<"c", "a", "f", "é">>,
          title |-> <<"é">>,
          x |-> 1, y |-> 2, z |-> 0, width |-> 3, height |-> 4,
          is_minimized |-> TRUE, is_maximized |-> TRUE, is_focused |-> FALSE]

(* C16: each client object of the hyprctl array yields exactly one         *)
(* WindowInfo, with id the value of the hex address, pid, app_name the     *)
(* class, the title, (x, y) the at pair, (width, height) the size pair,    *)
(* is_minimized the hidden flag, is_maximized the fullscreen flag and      *)
(* is_focused exactly when focusHistoryID is 0; the documented sample      *)
(* gives id 305419896, pid 1234, firefox, Mozilla Firefox, 100,200         *)
(* 800x600, not minimized, focused.                                        *)
C16_ClientFieldsMapped ==
    (/\ last.op = "parse_hyprland_json"
     /\ \A k \in 1..Len(last.input[1]) : last.input[1][k] \in CompleteClients)
        => last.result =
              Ok("hyprctl",
                 [k \in 1..Len(last.input[1]) |-> ClientFields(last.input[1][k])])

Distinct(seq) == \A j, k \in 1..Len(seq) : seq[j] = seq[k] => j = k

(* C17: every Hyprland client object and every Sway window node yields a   *)
(* WindowInfo, also when one of its fields is missing or malformed, the    *)
(* address of a client and the id of a node among them: that field is at   *)
(* its default and no record is dropped.                                   *)
C17_EveryRecordKept ==
    /\ last.op = "parse_hyprland_json" =>
          /\ last.result.ok
          /\ Len(last.result.val) = Len(last.input[1])
          /\ \A k \in 1..Len(last.input[1]) :
                 last.input[1][k] = o_no_address =>
                    /\ last.result.val[k].id = 0
                    /\ last.result.val[k].pid = 7
    /\ (last.op = "parse_sway_tree" /\ Distinct(last.input[1])) =>
          /\ last.result.ok
          /\ Len(last.result.val) = Len(last.input[1])
          /\ \A k \in 1..Len(last.input[1]) :
                 last.input[1][k] = n_no_id =>
                    /\ last.result.val[k].id = 0
                    /\ last.result.val[k].pid = 78

-----------------------------------------------------------------------------
(* Listing.                                                                *)

(* The output is not the structure the backend's parser expects: a         *)
(* bracketed array for Hyprland, a JSON tree (an object) for Sway.         *)
Unparseable(backend, text) ==
    IF backend = "Hyprland"
    THEN ~(starts_with(trim(text), <<"[">>) /\ ends_with(trim(text), <<"]">>))
    ELSE ~(starts_with(trim(text), <<"{">>) /\ ends_with(trim(text), <<"}">>))

(* C18: on the Hyprland and Sway backends the listing returns              *)
(* EnumerationFailed, and no list, whenever the compositor tool cannot be  *)
(* launched, exits non-zero, or prints what cannot be parsed as the        *)
(* expected structure.                                                     *)
C18_WlrootsListingFailsOnBadOutput ==
    (/\ last.op = "list_all_windows"
     /\ last.backend \in {"Hyprland", "Sway"}
     /\ \/ last.calls[1].outcome # "ok"
        \/ Unparseable(last.backend, last.input[last.calls[1].tool]))
        => (~last.result.ok /\ last.result.err = "EnumerationFailed")

(* The positions of the windows of a listing that are not minimized.       *)
Shown(windows) == {k \in 1..Len(windows) : ~windows[k].is_minimized}

(* kept holds the windows of the listing that are not minimized, each      *)
(* once, in the order of the listing.                                      *)
IsListingWithoutMinimized(kept, windows) ==
    /\ Len(kept) = Cardinality(Shown(windows))
    /\ \A i \in 1..Len(kept) :
           kept[i] = windows[CHOOSE k \in Shown(windows) :
                                Cardinality({j \in Shown(windows) : j <= k}) = i]

(* C19: list_capturable_windows returns exactly the WindowInfo of the      *)
(* backend listing whose is_minimized is false, in the listing's order;    *)
(* list_all_windows returns the listing as it is; both return an error of  *)
(* the listing unchanged.                                                  *)
C19_CapturableIsListingWithoutMinimized ==
    /\ last.op = "list_capturable_windows" =>
          IF last.listed.ok
          THEN /\ last.result.ok
               /\ IsListingWithoutMinimized(last.result.val, last.listed.val)
          ELSE last.result = last.listed
    /\ last.op = "list_all_windows" => last.result = last.listed

C19_HiddenClientLeftOut ==
    /\ last.op = "list_capturable_windows"
    /\ last.backend = "Hyprland"
    /\ last.listed.ok
    /\ Len(last.listed.val) = 2
    /\ last.listed.val[2].is_minimized
    /\ last.result.val = <<last.listed.val[1]>>

(* C20: every WindowInfo that list_windows_with_backend returns, on every  *)
(* backend and for every tool output, has width > 0 and height > 0.  Both  *)
(* are u32, held as the i32 with the same bits: > 0 is # 0.                *)
C20_ListedWindowsHaveSize ==
    (last.op \in {"list_all_windows", "list_capturable_windows"}
        /\ last.listed.ok)
        => \A k \in 1..Len(last.listed.val) :
               last.listed.val[k].width # 0 /\ last.listed.val[k].height # 0

-----------------------------------------------------------------------------
(* The generic capture.                                                    *)

(* The positions, in the enumeration of the call, of the windows with the  *)
(* requested id; with the requested title and app name; with the requested *)
(* x, y, width and height.                                                 *)
SameId ==
    {i \in 1..Len(unwrap(last.input)) :
        unwrap(last.input)[i].id = unwrap(last.win).id}

SameTitle ==
    {i \in 1..Len(unwrap(last.input)) :
        /\ unwrap(last.input)[i].title = unwrap(last.win).title
        /\ unwrap(last.input)[i].app_name = unwrap(last.win).app_name}

SameGeometry ==
    {i \in 1..Len(unwrap(last.input)) :
        /\ unwrap(last.input)[i].x = unwrap(last.win).x
        /\ unwrap(last.input)[i].y = unwrap(last.win).y
        /\ unwrap(last.input)[i].width = unwrap(last.win).width
        /\ unwrap(last.input)[i].height = unwrap(last.win).height}

MostSpecific ==
    IF SameId # {} THEN SameId
    ELSE IF SameTitle # {} THEN SameTitle
    ELSE SameGeometry

PixelGrabMade ==
    \E k \in 1..Len(last.calls) : last.calls[k].args = <<"capture_image">>

(* C21: on a fresh enumeration the generic capture selects the first       *)
(* window with the requested id; only if there is none, the first with the *)
(* requested title and app name; only if there is none, the first with the *)
(* requested x, y, width and height.  If nothing matches it returns        *)
(* WindowNotFound; if the selected window is minimized it returns          *)
(* WindowMinimized and makes no pixel grab.                                *)
C21_MostSpecificMatchFirst ==
    (last.op = "capture_window_xcap" /\ is_ok(last.input)) =>
        IF MostSpecific = {}
        THEN /\ last.output = None
             /\ last.result = Err("WindowNotFound", "xcap")
             /\ ~PixelGrabMade
        ELSE /\ last.output =
                   Some(unwrap(last.input)[CHOOSE i \in MostSpecific :
                                              \A j \in MostSpecific : i <= j])
             /\ unwrap(last.output).is_minimized =>
                   (last.result = Err("WindowMinimized", "xcap") /\ ~PixelGrabMade)
             /\ ~unwrap(last.output).is_minimized => PixelGrabMade

(* The second window has the requested id, the first only the requested    *)
(* title: the second is selected, and it is minimized.                     *)
C21_IdBeatsEarlierTitle ==
    /\ last.op = "capture_window_xcap"
    /\ is_ok(last.input)
    /\ SameId = {2}
    /\ 1 \in SameTitle
    /\ last.output = Some(unwrap(last.input)[2])
    /\ last.result = Err("WindowMinimized", "xcap")

-----------------------------------------------------------------------------
(* The temporary files.                                                     *)

(* C22 as the spec states it: after capture_window returns, on every exit   *)
(* path of every backend, no file written during the call remains at        *)
(* temp_path.                                                               *)
C22_NoTempFileAfterCaptureWindow ==
    last.op = "capture_window" => last.file = None

(* C24 as the spec states it: whatever the interleaving of two captures in *)
(* flight, in one process or in two, the image a capture loads is the file *)
(* its own Command wrote, and no capture overwrites or deletes the temp    *)
(* file of the other.                                                      *)
C24_TempFilesIsolated ==
    \A i \in InFlight :
        /\ is_ok(flights[i].loaded) => flights[i].loaded = Some(i)
        /\ ~flights[i].touched
        /\ flights[i].pc = "return" /\ flights[i].kind = "window" =>
               is_ok(flights[i].loaded)

(* C23: after capture_primary_monitor returns, whether it succeeded or      *)
(* failed and whichever tool of the Wayland chain wrote the file, the       *)
(* screen temp file does not exist.                                         *)
C23_NoScreenTempFileAfterCapture ==
    last.op = "capture_primary_monitor" => last.file = None

(* A screen capture failed after one of its tools had written a file that   *)
(* does not decode.                                                         *)
C23_FailedAfterAToolWrote ==
    /\ last.op = "capture_primary_monitor"
    /\ ~last.result.ok
    /\ last.wrote # {}
    /\ \E i \in 1..Len(last.calls) :
           /\ last.calls[i].outcome = "load_err"
           /\ command_of(last.calls[i]) \in last.wrote
    /\ last.file = None

-----------------------------------------------------------------------------
(* Rectangles from two corners.                                            *)

(* The two corners of a call, as f64, and the rectangle it gave with its   *)
(* numbers as f64.                                                         *)
CornerPair ==
    IF last.op = "get_drag_rect"
    THEN <<unwrap(last.input[1]), unwrap(last.input[2])>>
    ELSE last.input

GivenRect ==
    CASE last.op = "get_drag_rect" -> unwrap(last.output)
      [] last.op = "rectangle" ->
            Rect(f64(last.output.x), f64(last.output.y),
                 f64(last.output.width), f64(last.output.height))
      [] OTHER -> last.output

OfTwoCorners ==
    /\ last.op \in {"from_corners", "get_drag_rect", "rectangle"}
    /\ last.op = "get_drag_rect" => is_ok(last.output)

(* n is v without its fraction, the fraction dropped towards zero.         *)
WholePartOf(n, v) ==
    /\ abs(v) - abs(f64(n)) \in {0, 1}
    /\ n # 0 => (n > 0 <=> v > 0)

Swapped(out) ==
    CASE last.op = "from_corners" ->
            out = from_corners(CornerPair[2][1], CornerPair[2][2],
                               CornerPair[1][1], CornerPair[1][2])
      [] last.op = "get_drag_rect" ->
            out = get_drag_rect(last.input[2], last.input[1])
      [] OTHER ->
            out = rectangle(CornerPair[2][1], CornerPair[2][2],
                            CornerPair[1][1], CornerPair[1][2])

(* C25 as the spec states it: from_corners, get_drag_rect and              *)
(* Selection::rectangle give x = min(x1, x2), y = min(y1, y2),             *)
(* width = |x2 - x1| >= 0 and height = |y2 - y1| >= 0, and the same with   *)
(* the corners swapped.                                                    *)
C25_NormalisedExactly ==
    OfTwoCorners =>
        /\ GivenRect.x = min(CornerPair[1][1], CornerPair[2][1])
        /\ GivenRect.y = min(CornerPair[1][2], CornerPair[2][2])
        /\ GivenRect.width = abs(CornerPair[2][1] - CornerPair[1][1])
        /\ GivenRect.height = abs(CornerPair[2][2] - CornerPair[1][2])
        /\ GivenRect.width >= 0 /\ GivenRect.height >= 0
        /\ Swapped(last.output)

(* C25, amended: from_corners and get_drag_rect give exactly those four    *)
(* numbers; Selection::rectangle gives each of them as i32, its fraction   *)
(* dropped towards zero.  Width and height are never negative, swapping    *)
(* the corners gives the same rectangle, and corners (50,80) and (10,20)   *)
(* give x 10, y 20, width 40, height 60.                                   *)
C25_NormalisedUpToI32 ==
    OfTwoCorners =>
        LET within(n, v) ==
                IF last.op = "rectangle" THEN WholePartOf(n, v) ELSE n = v
            normalised(out) ==
                /\ within(out.x, min(CornerPair[1][1], CornerPair[2][1]))
                /\ within(out.y, min(CornerPair[1][2], CornerPair[2][2]))
                /\ within(out.width, abs(CornerPair[2][1] - CornerPair[1][1]))
                /\ within(out.height, abs(CornerPair[2][2] - CornerPair[1][2]))
                /\ out.width >= 0 /\ out.height >= 0
        IN  /\ normalised(IF last.op = "get_drag_rect" THEN unwrap(last.output)
                          ELSE last.output)
            /\ Swapped(last.output)
            /\ CornerPair = <<<<f64(50), f64(80)>>, <<f64(10), f64(20)>>>> =>
                   GivenRect = Rect(f64(10), f64(20), f64(40), f64(60))

(* Selection::rectangle from (50,80) back to (10.5,21.5): the second       *)
(* corner is up and left of the first, and has a fraction.                 *)
C25_SelectionDraggedUpLeft ==
    /\ last.op = "rectangle"
    /\ last.input = <<<<100, 160>>, <<21, 43>>>>
    /\ last.output = Rect(10, 21, 39, 58)

-----------------------------------------------------------------------------
(* The GNOME listing.                                                      *)

GnomeListing == last.op = "list_windows_gnome_wayland"

(* The places of the window-class markers in a text.                       *)
Markers(output) ==
    {i \in 1..Len(output) : /\ i + Len(s_wm_class) - 1 <= Len(output)
                            /\ SubSeq(output, i, i + Len(s_wm_class) - 1) = s_wm_class}

(* C26 as the spec states it: in a dump of two or more window records,     *)
(* whatever the order of the fields inside a record, the k-th WindowInfo   *)
(* has the title, pid and dimensions of the record of the k-th marker.     *)
C26_FieldsOfTheSameRecord ==
    (/\ GnomeListing
     /\ last.calls[1].outcome = "ok"
     /\ Len(last.input[1]) >= 2
     /\ \A k \in 1..Len(last.input[1]) : last.input[1][k].order # "class_only")
    => /\ last.result.ok
       /\ Len(last.result.val) = Len(last.input[1])
       /\ \A k \in 1..Len(last.input[1]) :
              /\ last.result.val[k].title = last.input[1][k].title
              /\ last.result.val[k].pid = last.input[1][k].pid
              /\ last.result.val[k].width = last.input[1][k].width
              /\ last.result.val[k].height = last.input[1][k].height

(* C28: when gdbus ends well and its output has n >= 1 window-class        *)
(* markers, the listing is n WindowInfo with ids 1..n in the order of the  *)
(* markers; when gdbus cannot be launched, ends badly or prints no marker, *)
(* the listing is what the generic backend returns, list or error.         *)
C28_OneWindowPerMarker ==
    GnomeListing =>
        LET n == Cardinality(Markers(last.input[2]))
        IN  IF last.calls[1].outcome = "ok" /\ n >= 1
            THEN /\ last.result.ok
                 /\ Len(last.calls) = 1
                 /\ Len(last.result.val) = n
                 /\ \A k \in 1..n :
                        /\ last.result.val[k].id = k
                        /\ last.result.val[k].app_name = last.input[1][k].app_name
            ELSE /\ last.result = list_windows_xcap(last.input[3]).result
                 /\ Tail(last.calls) = list_windows_xcap(last.input[3]).calls

(* A dump of two records gave two windows, numbered 1 and 2.               *)
C28_TwoMarkersTwoWindows ==
    /\ GnomeListing
    /\ last.calls[1].outcome = "ok"
    /\ Cardinality(Markers(last.input[2])) = 2
    /\ last.result.ok
    /\ Len(last.result.val) = 2
    /\ last.result.val[2].id = 2

-----------------------------------------------------------------------------
(* The KDE listing.                                                        *)

KdeListing == last.op = "list_all_windows" /\ last.backend = "KdeWayland"

CallsOf(tool, arg) ==
    {i \in 1..Len(last.calls) :
        last.calls[i].tool = tool /\ last.calls[i].args[1] = arg}

(* C27 as the spec states it: kdotool search is attempted first; the D-Bus *)
(* query is invoked only if kdotool could not be run or failed; one        *)
(* kdotool getwindowname is made per id that kdotool returned; when the    *)
(* D-Bus branch is taken, or kdotool yields no ids, or both fail, the      *)
(* result is the generic backend's.                                        *)
C27_KdotoolBeforeDBusQuery ==
    KdeListing =>
        LET searched == CallsOf("kdotool", "search")
            queried == CallsOf("gdbus", "KWin.queryWindowInfo")
            named == CallsOf("kdotool", "getwindowname")
            ids == kdotool_ids(lines(last.input["kdotool"]))
            search_ok == \E i \in searched : last.calls[i].outcome = "ok"
        IN  /\ searched = {1}
            /\ queried # {} => ~search_ok /\ queried = {2}
            /\ Cardinality(named) = IF search_ok THEN Len(ids) ELSE 0
            /\ IF search_ok /\ ids # <<>>
               THEN last.listed.ok /\ last.listed.by = "kdotool"
               ELSE last.listed.by = "xcap"

-----------------------------------------------------------------------------
(* The Sway tree walk.                                                     *)

(* The leaf windows of a sample node, by id and pid: the node itself, or   *)
(* the window inside the container.                                        *)
SwayLeaf(node) ==
    CASE node = n_window -> [id |-> 5, pid |-> 77]
      [] node = n_container -> [id |-> 5, pid |-> 77]
      [] node = n_no_rect -> [id |-> 6, pid |-> 79]
      [] node = n_brace -> [id |-> 8, pid |-> 80]
      [] OTHER -> [id |-> 0, pid |-> 78]

RECURSIVE FirstOccurrences(_, _)
FirstOccurrences(seq, seen) ==
    IF seq = <<>> THEN <<>>
    ELSE (IF Head(seq) \in seen THEN <<>> ELSE <<Head(seq)>>)
            \o FirstOccurrences(Tail(seq), seen \cup {Head(seq)})

(* C29 as the spec states it, on trees whose nodes all have an id: the     *)
(* result holds one WindowInfo per distinct leaf carrying a pid and an     *)
(* app_id or window_properties, built from the leaf's own object and not   *)
(* from a container around it, in order of first occurrence, no two with   *)
(* the same id; the containers give no entry.                              *)
C29_OneWindowPerLeaf ==
    (/\ last.op = "parse_sway_tree"
     /\ \A k \in 1..Len(last.input[1]) : last.input[1][k] # n_no_id)
    => LET leaves ==
               FirstOccurrences([k \in 1..Len(last.input[1]) |->
                                    SwayLeaf(last.input[1][k])], {})
       IN  /\ last.result.ok
           /\ [k \in 1..Len(last.result.val) |->
                  [id |-> last.result.val[k].id, pid |-> last.result.val[k].pid]]
                 = leaves

-----------------------------------------------------------------------------
(* The legacy fallbacks.                                                   *)

Read(var) == \E i \in 1..Len(last.reads) : last.reads[i] = var

ReadBefore(a, b) ==
    \A i, j \in 1..Len(last.reads) :
        last.reads[i] = a /\ last.reads[j] = b => i < j

(* The DESKTOP_SESSION of the environment names desktop, in any case.      *)
SessionNames(desktop) ==
    /\ is_ok(env["DESKTOP_SESSION"])
    /\ contains(to_lowercase(unwrap(env["DESKTOP_SESSION"])), desktop)

(* C30: DESKTOP_SESSION, KDE_FULL_SESSION and GNOME_DESKTOP_SESSION_ID are *)
(* consulted only when no compositor signature is set and                  *)
(* XDG_CURRENT_DESKTOP is unset or empty, and in this order:               *)
(* DESKTOP_SESSION by case-insensitive substring (gnome, then plasma or    *)
(* kde, then cinnamon, xfce, mate); if it is unset or names none of them,  *)
(* KDE_FULL_SESSION set gives Kde; otherwise GNOME_DESKTOP_SESSION_ID set  *)
(* gives Gnome.                                                            *)
C30_LegacyFallbacksInOrder ==
    last.op = "detect" =>
        LET de == last.session.desktop_environment.tag
            legacy == Read("DESKTOP_SESSION") \/ Read("KDE_FULL_SESSION")
                         \/ Read("GNOME_DESKTOP_SESSION_ID")
            named == \E desktop \in {s_gnome, s_plasma, s_kde, s_cinnamon,
                                     s_xfce, s_mate} : SessionNames(desktop)
        IN  /\ legacy =>
                 /\ ~is_ok(env["HYPRLAND_INSTANCE_SIGNATURE"])
                 /\ ~is_ok(env["SWAYSOCK"])
                 /\ env["XDG_CURRENT_DESKTOP"] \in {None, Some(<<>>)}
                 /\ Read("DESKTOP_SESSION")
            /\ ReadBefore("DESKTOP_SESSION", "KDE_FULL_SESSION")
            /\ ReadBefore("KDE_FULL_SESSION", "GNOME_DESKTOP_SESSION_ID")
            /\ Read("GNOME_DESKTOP_SESSION_ID") => Read("KDE_FULL_SESSION")
            /\ (legacy /\ named) =>
                 /\ ~Read("KDE_FULL_SESSION")
                 /\ de = CASE SessionNames(s_gnome) -> "Gnome"
                           [] SessionNames(s_plasma) \/ SessionNames(s_kde) -> "Kde"
                           [] SessionNames(s_cinnamon) -> "Cinnamon"
                           [] SessionNames(s_xfce) -> "Xfce"
                           [] OTHER -> "Mate"
            /\ (legacy /\ ~named) =>
                 /\ Read("KDE_FULL_SESSION")
                 /\ is_ok(env["KDE_FULL_SESSION"]) =>
                        de = "Kde" /\ ~Read("GNOME_DESKTOP_SESSION_ID")
                 /\ ~is_ok(env["KDE_FULL_SESSION"]) =>
                        /\ Read("GNOME_DESKTOP_SESSION_ID")
                        /\ is_ok(env["GNOME_DESKTOP_SESSION_ID"]) => de = "Gnome"

(* DESKTOP_SESSION=GNOME-xfce with KDE_FULL_SESSION set: the session       *)
(* decides, gnome before xfce, and the KDE marker is not read.             *)
C30_SessionBeforeMarkers ==
    /\ last.op = "detect"
    /\ env["DESKTOP_SESSION"] = Some(v_GNOME_xfce)
    /\ is_ok(env["KDE_FULL_SESSION"])
    /\ Read("DESKTOP_SESSION")
    /\ ~Read("KDE_FULL_SESSION")
    /\ last.session.desktop_environment.tag = "Gnome"

-----------------------------------------------------------------------------
(* The application state.                                                  *)

(* C31: whenever the selection overlay is active (is_active), the capture  *)
(* mode is Selection, so that the Cancel and Confirm shortcuts, which test *)
(* both, act on every active overlay.                                      *)
C31_ActiveOverlayIsSelection == state.is_active => state.mode = "Selection"

(* C33: a capture that fails changes nothing: after a handler whose        *)
(* capture_primary_monitor or capture_window returned an error,            *)
(* final_image, original_screenshot, is_active, mode, selection and the    *)
(* annotations are what they were before the handler ran.                  *)
C33_FailedCaptureChangesNothing ==
    [][event'.returned = "Err" =>
          /\ state'.final_image = state.final_image
          /\ state'.original_screenshot = state.original_screenshot
          /\ state'.is_active = state.is_active
          /\ state'.mode = state.mode
          /\ state'.selection = state.selection
          /\ state'.editor.annotations = state.editor.annotations]_vars

(* A capture has failed while the overlay was active over a screenshot,    *)
(* with a selection dragged on it.                                         *)
C33_FailedOverActiveOverlay ==
    /\ event.call = "capture_primary_monitor"
    /\ event.returned = "Err"
    /\ state.is_active
    /\ is_ok(state.final_image)
    /\ is_ok(state.selection)
    /\ is_significant(unwrap(state.selection))

(* C38: delay_seconds is between 0 and 10 after any sequence of            *)
(* increment_delay and decrement_delay from a new AppState: an increment   *)
(* at 10 and a decrement at 0 leave it where it is, and the u32 neither    *)
(* underflows nor overflows.                                               *)
C38_DelayWithinRange == state.delay_seconds \in 0..10

(* The delay has been raised to its maximum.                               *)
C38_DelayAtMaximum == state.delay_seconds = 10


(* C32: in every reachable state of the editor (tool buttons toggled, tool *)
(* shortcuts pressed, the crop toolbar's confirm and cancel clicked, drags *)
(* made) is_crop_mode is true only if the active editor tool is Crop.      *)
C32_CropModeOnlyWithCropTool ==
    state.is_crop_mode => state.editor.tool_state.active_tool = "Crop"

(* C34: a drag with the Rectangle tool that commits a rectangle at its end *)
(* commits the rectangle between the point where the drag started and the *)
(* point it reached, whatever the direction: x and y are the minima of the *)
(* two corners, width and height their absolute differences, as            *)
(* RectangleAnnotation::from_corners gives them.                           *)
C34_CommittedRectangleIsFromCorners ==
    [][/\ is_ok(ui.gesture) /\ ~is_ok(ui'.gesture)
       /\ state.editor.tool_state.active_tool = "Rectangle"
       /\ state.editor.tool_state.is_drawing
       /\ Len(state'.editor.annotations.annotations)
              = Len(state.editor.annotations.annotations) + 1
       => LET start == unwrap(state.editor.tool_state.drag_start)
              end == unwrap(state.editor.tool_state.drag_current)
              rect == state'.editor.annotations.annotations[
                          Len(state'.editor.annotations.annotations)]
              corners == RectangleAnnotation_from_corners(
                             start[1], start[2], end[1], end[2])
          IN  /\ rect.kind = "Rectangle"
              /\ rect.x = corners.x /\ rect.y = corners.y
              /\ rect.width = corners.width /\ rect.height = corners.height]_vars

(* C35: after any sequence of EditorState operations (on_drag_start,       *)
(* on_drag_update, on_drag_end, pointer_drag_start, pointer_drag_update,   *)
(* pointer_drag_end, commit_text, cancel_text, undo, clear_annotations,    *)
(* reset, set_tool) the selected annotation index is None or strictly less *)
(* than the number of committed annotations.                               *)
C35_SelectedIndexInList ==
    LET list == state.editor.annotations
    IN  is_ok(list.selected_index)
        => unwrap(list.selected_index) \in 0..(Len(list.annotations) - 1)

(* The last of several committed annotations is the selected one.          *)
C35_LastOfSeveralSelected ==
    LET list == state.editor.annotations
    IN  /\ Len(list.annotations) = MaxAnnotations
        /\ list.selected_index = Some(Len(list.annotations) - 1)

(* C36: undo removes exactly the most recently committed annotation,       *)
(* leaves the earlier ones and their order as they were, clears the        *)
(* selection, leaves the annotation in progress and the rest of the editor *)
(* alone, and returns true; on an empty list it returns false and changes  *)
(* nothing but the selection, which it clears.  So as many undos as there  *)
(* were commits give an empty list.                                        *)
C36_UndoRemovesTheLastCommitted ==
    [][event'.call = "undo" =>
           LET old == state.editor.annotations
               new == state'.editor.annotations
           IN  /\ new.selected_index = None
               /\ new.current_annotation = old.current_annotation
               /\ state'.editor.tool_state = state.editor.tool_state
               /\ state'.editor.pending_text = state.editor.pending_text
               /\ IF old.annotations # <<>>
                  THEN /\ event'.returned = TRUE
                       /\ Len(new.annotations) = Len(old.annotations) - 1
                       /\ \A i \in 1..Len(new.annotations) :
                              new.annotations[i] = old.annotations[i]
                  ELSE /\ event'.returned = FALSE
                       /\ new.annotations = <<>>]_vars

(* An undo has returned true and left an earlier annotation in the list,   *)
(* with an annotation in progress.                                         *)
C36_UndoneWithOneLeftAndCurrent ==
    /\ event.call = "undo" /\ event.returned = TRUE
    /\ Len(state.editor.annotations.annotations) = MaxAnnotations - 1
    /\ is_ok(state.editor.annotations.current_annotation)
    /\ state.editor.annotations.selected_index = None

(* The rectangle new_subpixbuf is called with lies inside its source.      *)
InBounds(call) ==
    /\ call.x >= 0 /\ call.y >= 0 /\ call.width > 0 /\ call.height > 0
    /\ call.x + call.width <= call.src.width
    /\ call.y + call.height <= call.src.height

(* C37: every crop is bounds-safe.  Whenever apply_selection_crop,         *)
(* apply_editor_crop or crop_pixbuf calls new_subpixbuf, the rectangle it  *)
(* passes has x >= 0, y >= 0, width > 0, height > 0, x + width at most the *)
(* source's width and y + height at most its height; and a crop that is    *)
(* refused (no selection or drag, one not larger than 10 by 10, no image,  *)
(* a clamped size that is not positive) returns false and leaves the image *)
(* and the annotations as they were.                                       *)
C37_CropsAreBoundsSafe ==
    /\ last.op \in {"apply_selection_crop", "apply_editor_crop"}
       => /\ last.output.returns = is_ok(last.output.subpixbuf)
          /\ is_ok(last.output.subpixbuf)
             => /\ InBounds(unwrap(last.output.subpixbuf))
                /\ unwrap(last.output.subpixbuf).src
                       = unwrap(IF last.op = "apply_selection_crop"
                                THEN last.input.original_screenshot
                                ELSE last.input.final_image)
          /\ ~last.output.returns
             => /\ last.output.state.final_image = last.input.final_image
                /\ last.output.state.original_screenshot
                       = last.input.original_screenshot
                /\ last.output.state.editor.annotations
                       = last.input.editor.annotations
          /\ last.op = "apply_selection_crop"
             /\ (~is_ok(last.input.selection)
                 \/ ~is_significant(unwrap(last.input.selection)))
             => ~last.output.returns
          /\ last.op = "apply_editor_crop"
             /\ (~is_ok(last.input.editor.tool_state.drag_start)
                 \/ get_drag_rect(last.input.editor.tool_state.drag_start,
                                  last.input.editor.tool_state.drag_current)[1].width
                        <= f64(10)
                 \/ get_drag_rect(last.input.editor.tool_state.drag_start,
                                  last.input.editor.tool_state.drag_current)[1].height
                        <= f64(10))
             => ~last.output.returns
    /\ last.op = "crop_pixbuf" /\ is_ok(last.output)
       => InBounds(SubpixbufCall(last.input[1],
                                 unwrap(last.output)[1], unwrap(last.output)[2],
                                 unwrap(last.output)[3], unwrap(last.output)[4]))

(* A selection that starts left of and above the image and ends right of   *)
(* and below it has been cropped to the image.                             *)
C37_SelectionBeyondImageCropped ==
    /\ last.op = "apply_selection_crop" /\ last.output.returns
    /\ Selection_rectangle(unwrap(last.input.selection)).x < 0
    /\ Selection_rectangle(unwrap(last.input.selection)).y < 0
    /\ Selection_rectangle(unwrap(last.input.selection)).width
           > unwrap(last.input.original_screenshot).width
    /\ unwrap(last.output.subpixbuf).width
           = unwrap(last.input.original_screenshot).width

(* C39: within one Hyprland listing the id identifies the window.  Client  *)
(* objects whose address values are pairwise different give WindowInfo     *)
(* with pairwise different ids, also when the hex value of an address does *)
(* not fit in 32 bits.                                                     *)
C39_DistinctAddressesDistinctIds ==
    last.op = "parse_hyprland_json" /\ last.result.ok
    => LET objs == last.input[1]
           address(k) == extract_json_hex_value(objs[k],
                                                <<"a", "d", "d", "r", "e", "s", "s">>)
       IN  /\ \A k \in 1..Len(objs) : is_ok(address(k))
           /\ \A j \in 1..Len(objs), k \in 1..Len(objs) :
                  j # k => address(j) # address(k)
           => /\ Len(last.result.val) = Len(objs)
              /\ \A j \in 1..Len(objs), k \in 1..Len(objs) :
                     j # k => last.result.val[j].id # last.result.val[k].id

=========================================================================
